---- MODULE Spec2Model ----
(***************************************************************************)
(* Model of the spain-wildfires data pipeline: the cleaning functions      *)
(* (cleaning.py), the province resolver and geo enricher (geo.py), the     *)
(* aggregations (aggregates.py), the Incendios facade (incendios.py) and   *)
(* the dashboard's filter (spain_wildfires_dashboard.py).                   *)
(*                                                                         *)
(* A table (pandas DataFrame) is a record [cols, rows]: cols is the        *)
(* ordered sequence of column names, rows a sequence of functions from     *)
(* column name to cell.  A cell is a record [k, n, s]:                     *)
(*   k = "num"  : a number, n counts TENTHS (n = 75 is 7.5)                *)
(*   k = "inf"  : an infinite number, n is its sign (1 or -1)              *)
(*   k = "nan"  : a missing value (NaN / None / <NA>)                      *)
(*   k = "str"  : a text, s is its sequence of characters                  *)
(*   k = "bool" : a boolean, n is 1 or 0                                   *)
(*   k = "null" : JSON null (Python None inside a GeoJSON property bag)    *)
(* A call returns [kind |-> "table" | "geo" | "map" | "error", ...].       *)
(***************************************************************************)
EXTENDS Integers, Sequences, FiniteSets, TLC

VARIABLES df, geojson, provinces_map, call, ret

vars == <<df, geojson, provinces_map, call, ret>>

(***************************************************************************)
(* Cells                                                                   *)
(***************************************************************************)
Num(n) == [k |-> "num", n |-> n, s |-> <<>>]

\* a whole number i, in the model's tenths
Int10(i) == Num(10 * i)

\* float("inf") and float("-inf")
Inf(sign) == [k |-> "inf", n |-> sign, s |-> <<>>]

NaN == [k |-> "nan", n |-> 0, s |-> <<>>]

Str(s) == [k |-> "str", n |-> 0, s |-> s]

Bool(b) == [k |-> "bool", n |-> IF b THEN 1 ELSE 0, s |-> <<>>]

Null == [k |-> "null", n |-> 0, s |-> <<>>]

\* pd.isna on a scalar: NaN and None are missing
IsNa(v) == v.k \in {"nan", "null"}

Digits == <<"0", "1", "2", "3", "4", "5", "6", "7", "8", "9">>

IsDigit(c) == \E i \in 1..10 : Digits[i] = c

DigitVal(c) == (CHOOSE i \in 1..10 : Digits[i] = c) - 1

RECURSIVE DigitsValue(_)
DigitsValue(s) ==
    IF s = <<>> THEN 0
    ELSE 10 * DigitsValue(SubSeq(s, 1, Len(s) - 1)) + DigitVal(s[Len(s)])

AllDigits(s) == \A i \in 1..Len(s) : IsDigit(s[i])

\* A character without an escape of its own in a string is written as one
\* element holding its Python escape: "\\v" is the vertical tab.
\* The blanks of pandas' number parser (ASCII white space).
Blanks == {" ", "\t", "\n", "\\v", "\f", "\r"}

\* The white space of Python beyond ASCII (str.isspace above U+007F).
UnicodeSpace ==
    {"\\x85", "\\xa0", "\\u1680", "\\u2000", "\\u2001", "\\u2002", "\\u2003",
     "\\u2004", "\\u2005", "\\u2006", "\\u2007", "\\u2008", "\\u2009", "\\u200a",
     "\\u2028", "\\u2029", "\\u202f", "\\u205f", "\\u3000"}

\* The decimal digits beyond ASCII (str.isdecimal above U+007F, Unicode 14),
\* zero to nine of each of the 65 runs: Arabic-Indic first, the segmented
\* digits of U+1FBF0 last.
UnicodeDigits ==
    {<<"\\u0660", "\\u0661", "\\u0662", "\\u0663", "\\u0664", "\\u0665", "\\u0666",
       "\\u0667", "\\u0668", "\\u0669">>,
     <<"\\u06f0", "\\u06f1", "\\u06f2", "\\u06f3", "\\u06f4", "\\u06f5", "\\u06f6",
       "\\u06f7", "\\u06f8", "\\u06f9">>,
     <<"\\u07c0", "\\u07c1", "\\u07c2", "\\u07c3", "\\u07c4", "\\u07c5", "\\u07c6",
       "\\u07c7", "\\u07c8", "\\u07c9">>,
     <<"\\u0966", "\\u0967", "\\u0968", "\\u0969", "\\u096a", "\\u096b", "\\u096c",
       "\\u096d", "\\u096e", "\\u096f">>,
     <<"\\u09e6", "\\u09e7", "\\u09e8", "\\u09e9", "\\u09ea", "\\u09eb", "\\u09ec",
       "\\u09ed", "\\u09ee", "\\u09ef">>,
     <<"\\u0a66", "\\u0a67", "\\u0a68", "\\u0a69", "\\u0a6a", "\\u0a6b", "\\u0a6c",
       "\\u0a6d", "\\u0a6e", "\\u0a6f">>,
     <<"\\u0ae6", "\\u0ae7", "\\u0ae8", "\\u0ae9", "\\u0aea", "\\u0aeb", "\\u0aec",
       "\\u0aed", "\\u0aee", "\\u0aef">>,
     <<"\\u0b66", "\\u0b67", "\\u0b68", "\\u0b69", "\\u0b6a", "\\u0b6b", "\\u0b6c",
       "\\u0b6d", "\\u0b6e", "\\u0b6f">>,
     <<"\\u0be6", "\\u0be7", "\\u0be8", "\\u0be9", "\\u0bea", "\\u0beb", "\\u0bec",
       "\\u0bed", "\\u0bee", "\\u0bef">>,
     <<"\\u0c66", "\\u0c67", "\\u0c68", "\\u0c69", "\\u0c6a", "\\u0c6b", "\\u0c6c",
       "\\u0c6d", "\\u0c6e", "\\u0c6f">>,
     <<"\\u0ce6", "\\u0ce7", "\\u0ce8", "\\u0ce9", "\\u0cea", "\\u0ceb", "\\u0cec",
       "\\u0ced", "\\u0cee", "\\u0cef">>,
     <<"\\u0d66", "\\u0d67", "\\u0d68", "\\u0d69", "\\u0d6a", "\\u0d6b", "\\u0d6c",
       "\\u0d6d", "\\u0d6e", "\\u0d6f">>,
     <<"\\u0de6", "\\u0de7", "\\u0de8", "\\u0de9", "\\u0dea", "\\u0deb", "\\u0dec",
       "\\u0ded", "\\u0dee", "\\u0def">>,
     <<"\\u0e50", "\\u0e51", "\\u0e52", "\\u0e53", "\\u0e54", "\\u0e55", "\\u0e56",
       "\\u0e57", "\\u0e58", "\\u0e59">>,
     <<"\\u0ed0", "\\u0ed1", "\\u0ed2", "\\u0ed3", "\\u0ed4", "\\u0ed5", "\\u0ed6",
       "\\u0ed7", "\\u0ed8", "\\u0ed9">>,
     <<"\\u0f20", "\\u0f21", "\\u0f22", "\\u0f23", "\\u0f24", "\\u0f25", "\\u0f26",
       "\\u0f27", "\\u0f28", "\\u0f29">>,
     <<"\\u1040", "\\u1041", "\\u1042", "\\u1043", "\\u1044", "\\u1045", "\\u1046",
       "\\u1047", "\\u1048", "\\u1049">>,
     <<"\\u1090", "\\u1091", "\\u1092", "\\u1093", "\\u1094", "\\u1095", "\\u1096",
       "\\u1097", "\\u1098", "\\u1099">>,
     <<"\\u17e0", "\\u17e1", "\\u17e2", "\\u17e3", "\\u17e4", "\\u17e5", "\\u17e6",
       "\\u17e7", "\\u17e8", "\\u17e9">>,
     <<"\\u1810", "\\u1811", "\\u1812", "\\u1813", "\\u1814", "\\u1815", "\\u1816",
       "\\u1817", "\\u1818", "\\u1819">>,
     <<"\\u1946", "\\u1947", "\\u1948", "\\u1949", "\\u194a", "\\u194b", "\\u194c",
       "\\u194d", "\\u194e", "\\u194f">>,
     <<"\\u19d0", "\\u19d1", "\\u19d2", "\\u19d3", "\\u19d4", "\\u19d5", "\\u19d6",
       "\\u19d7", "\\u19d8", "\\u19d9">>,
     <<"\\u1a80", "\\u1a81", "\\u1a82", "\\u1a83", "\\u1a84", "\\u1a85", "\\u1a86",
       "\\u1a87", "\\u1a88", "\\u1a89">>,
     <<"\\u1a90", "\\u1a91", "\\u1a92", "\\u1a93", "\\u1a94", "\\u1a95", "\\u1a96",
       "\\u1a97", "\\u1a98", "\\u1a99">>,
     <<"\\u1b50", "\\u1b51", "\\u1b52", "\\u1b53", "\\u1b54", "\\u1b55", "\\u1b56",
       "\\u1b57", "\\u1b58", "\\u1b59">>,
     <<"\\u1bb0", "\\u1bb1", "\\u1bb2", "\\u1bb3", "\\u1bb4", "\\u1bb5", "\\u1bb6",
       "\\u1bb7", "\\u1bb8", "\\u1bb9">>,
     <<"\\u1c40", "\\u1c41", "\\u1c42", "\\u1c43", "\\u1c44", "\\u1c45", "\\u1c46",
       "\\u1c47", "\\u1c48", "\\u1c49">>,
     <<"\\u1c50", "\\u1c51", "\\u1c52", "\\u1c53", "\\u1c54", "\\u1c55", "\\u1c56",
       "\\u1c57", "\\u1c58", "\\u1c59">>,
     <<"\\ua620", "\\ua621", "\\ua622", "\\ua623", "\\ua624", "\\ua625", "\\ua626",
       "\\ua627", "\\ua628", "\\ua629">>,
     <<"\\ua8d0", "\\ua8d1", "\\ua8d2", "\\ua8d3", "\\ua8d4", "\\ua8d5", "\\ua8d6",
       "\\ua8d7", "\\ua8d8", "\\ua8d9">>,
     <<"\\ua900", "\\ua901", "\\ua902", "\\ua903", "\\ua904", "\\ua905", "\\ua906",
       "\\ua907", "\\ua908", "\\ua909">>,
     <<"\\ua9d0", "\\ua9d1", "\\ua9d2", "\\ua9d3", "\\ua9d4", "\\ua9d5", "\\ua9d6",
       "\\ua9d7", "\\ua9d8", "\\ua9d9">>,
     <<"\\ua9f0", "\\ua9f1", "\\ua9f2", "\\ua9f3", "\\ua9f4", "\\ua9f5", "\\ua9f6",
       "\\ua9f7", "\\ua9f8", "\\ua9f9">>,
     <<"\\uaa50", "\\uaa51", "\\uaa52", "\\uaa53", "\\uaa54", "\\uaa55", "\\uaa56",
       "\\uaa57", "\\uaa58", "\\uaa59">>,
     <<"\\uabf0", "\\uabf1", "\\uabf2", "\\uabf3", "\\uabf4", "\\uabf5", "\\uabf6",
       "\\uabf7", "\\uabf8", "\\uabf9">>,
     <<"\\uff10", "\\uff11", "\\uff12", "\\uff13", "\\uff14", "\\uff15", "\\uff16",
       "\\uff17", "\\uff18", "\\uff19">>,
     <<"\\U000104a0", "\\U000104a1", "\\U000104a2", "\\U000104a3", "\\U000104a4",
       "\\U000104a5", "\\U000104a6", "\\U000104a7", "\\U000104a8", "\\U000104a9">>,
     <<"\\U00010d30", "\\U00010d31", "\\U00010d32", "\\U00010d33", "\\U00010d34",
       "\\U00010d35", "\\U00010d36", "\\U00010d37", "\\U00010d38", "\\U00010d39">>,
     <<"\\U00011066", "\\U00011067", "\\U00011068", "\\U00011069", "\\U0001106a",
       "\\U0001106b", "\\U0001106c", "\\U0001106d", "\\U0001106e", "\\U0001106f">>,
     <<"\\U000110f0", "\\U000110f1", "\\U000110f2", "\\U000110f3", "\\U000110f4",
       "\\U000110f5", "\\U000110f6", "\\U000110f7", "\\U000110f8", "\\U000110f9">>,
     <<"\\U00011136", "\\U00011137", "\\U00011138", "\\U00011139", "\\U0001113a",
       "\\U0001113b", "\\U0001113c", "\\U0001113d", "\\U0001113e", "\\U0001113f">>,
     <<"\\U000111d0", "\\U000111d1", "\\U000111d2", "\\U000111d3", "\\U000111d4",
       "\\U000111d5", "\\U000111d6", "\\U000111d7", "\\U000111d8", "\\U000111d9">>,
     <<"\\U000112f0", "\\U000112f1", "\\U000112f2", "\\U000112f3", "\\U000112f4",
       "\\U000112f5", "\\U000112f6", "\\U000112f7", "\\U000112f8", "\\U000112f9">>,
     <<"\\U00011450", "\\U00011451", "\\U00011452", "\\U00011453", "\\U00011454",
       "\\U00011455", "\\U00011456", "\\U00011457", "\\U00011458", "\\U00011459">>,
     <<"\\U000114d0", "\\U000114d1", "\\U000114d2", "\\U000114d3", "\\U000114d4",
       "\\U000114d5", "\\U000114d6", "\\U000114d7", "\\U000114d8", "\\U000114d9">>,
     <<"\\U00011650", "\\U00011651", "\\U00011652", "\\U00011653", "\\U00011654",
       "\\U00011655", "\\U00011656", "\\U00011657", "\\U00011658", "\\U00011659">>,
     <<"\\U000116c0", "\\U000116c1", "\\U000116c2", "\\U000116c3", "\\U000116c4",
       "\\U000116c5", "\\U000116c6", "\\U000116c7", "\\U000116c8", "\\U000116c9">>,
     <<"\\U00011730", "\\U00011731", "\\U00011732", "\\U00011733", "\\U00011734",
       "\\U00011735", "\\U00011736", "\\U00011737", "\\U00011738", "\\U00011739">>,
     <<"\\U000118e0", "\\U000118e1", "\\U000118e2", "\\U000118e3", "\\U000118e4",
       "\\U000118e5", "\\U000118e6", "\\U000118e7", "\\U000118e8", "\\U000118e9">>,
     <<"\\U00011950", "\\U00011951", "\\U00011952", "\\U00011953", "\\U00011954",
       "\\U00011955", "\\U00011956", "\\U00011957", "\\U00011958", "\\U00011959">>,
     <<"\\U00011c50", "\\U00011c51", "\\U00011c52", "\\U00011c53", "\\U00011c54",
       "\\U00011c55", "\\U00011c56", "\\U00011c57", "\\U00011c58", "\\U00011c59">>,
     <<"\\U00011d50", "\\U00011d51", "\\U00011d52", "\\U00011d53", "\\U00011d54",
       "\\U00011d55", "\\U00011d56", "\\U00011d57", "\\U00011d58", "\\U00011d59">>,
     <<"\\U00011da0", "\\U00011da1", "\\U00011da2", "\\U00011da3", "\\U00011da4",
       "\\U00011da5", "\\U00011da6", "\\U00011da7", "\\U00011da8", "\\U00011da9">>,
     <<"\\U00016a60", "\\U00016a61", "\\U00016a62", "\\U00016a63", "\\U00016a64",
       "\\U00016a65", "\\U00016a66", "\\U00016a67", "\\U00016a68", "\\U00016a69">>,
     <<"\\U00016ac0", "\\U00016ac1", "\\U00016ac2", "\\U00016ac3", "\\U00016ac4",
       "\\U00016ac5", "\\U00016ac6", "\\U00016ac7", "\\U00016ac8", "\\U00016ac9">>,
     <<"\\U00016b50", "\\U00016b51", "\\U00016b52", "\\U00016b53", "\\U00016b54",
       "\\U00016b55", "\\U00016b56", "\\U00016b57", "\\U00016b58", "\\U00016b59">>,
     <<"\\U0001d7ce", "\\U0001d7cf", "\\U0001d7d0", "\\U0001d7d1", "\\U0001d7d2",
       "\\U0001d7d3", "\\U0001d7d4", "\\U0001d7d5", "\\U0001d7d6", "\\U0001d7d7">>,
     <<"\\U0001d7d8", "\\U0001d7d9", "\\U0001d7da", "\\U0001d7db", "\\U0001d7dc",
       "\\U0001d7dd", "\\U0001d7de", "\\U0001d7df", "\\U0001d7e0", "\\U0001d7e1">>,
     <<"\\U0001d7e2", "\\U0001d7e3", "\\U0001d7e4", "\\U0001d7e5", "\\U0001d7e6",
       "\\U0001d7e7", "\\U0001d7e8", "\\U0001d7e9", "\\U0001d7ea", "\\U0001d7eb">>,
     <<"\\U0001d7ec", "\\U0001d7ed", "\\U0001d7ee", "\\U0001d7ef", "\\U0001d7f0",
       "\\U0001d7f1", "\\U0001d7f2", "\\U0001d7f3", "\\U0001d7f4", "\\U0001d7f5">>,
     <<"\\U0001d7f6", "\\U0001d7f7", "\\U0001d7f8", "\\U0001d7f9", "\\U0001d7fa",
       "\\U0001d7fb", "\\U0001d7fc", "\\U0001d7fd", "\\U0001d7fe", "\\U0001d7ff">>,
     <<"\\U0001e140", "\\U0001e141", "\\U0001e142", "\\U0001e143", "\\U0001e144",
       "\\U0001e145", "\\U0001e146", "\\U0001e147", "\\U0001e148", "\\U0001e149">>,
     <<"\\U0001e2f0", "\\U0001e2f1", "\\U0001e2f2", "\\U0001e2f3", "\\U0001e2f4",
       "\\U0001e2f5", "\\U0001e2f6", "\\U0001e2f7", "\\U0001e2f8", "\\U0001e2f9">>,
     <<"\\U0001e950", "\\U0001e951", "\\U0001e952", "\\U0001e953", "\\U0001e954",
       "\\U0001e955", "\\U0001e956", "\\U0001e957", "\\U0001e958", "\\U0001e959">>,
     <<"\\U0001fbf0", "\\U0001fbf1", "\\U0001fbf2", "\\U0001fbf3", "\\U0001fbf4",
       "\\U0001fbf5", "\\U0001fbf6", "\\U0001fbf7", "\\U0001fbf8", "\\U0001fbf9">>}

IsUnicodeDigit(c) == \E ds \in UnicodeDigits : \E i \in 1..10 : ds[i] = c

\* the ASCII digit with the value of a decimal digit beyond ASCII
AsciiDigitOf(c) ==
    Digits[CHOOSE i \in 1..10 : \E ds \in UnicodeDigits : ds[i] = c]

\* the text without the blanks pandas' parser, and int(), skip around a number
RECURSIVE Strip(_)
Strip(s) ==
    IF s = <<>> THEN s
    ELSE IF s[1] \in Blanks THEN Strip(Tail(s))
    ELSE IF s[Len(s)] \in Blanks THEN Strip(SubSeq(s, 1, Len(s) - 1))
    ELSE s

RECURSIVE Pow10(_)
Pow10(e) == IF e <= 0 THEN 1 ELSE 10 * Pow10(e - 1)

\* an optional sign in front of a text: the sign and the rest
Signed(s) ==
    IF s # <<>> /\ s[1] \in {"-", "+"}
    THEN [sign |-> IF s[1] = "-" THEN -1 ELSE 1, rest |-> Tail(s)]
    ELSE [sign |-> 1, rest |-> s]

\* The model's numbers resolve tenths.  A number with the digits kept down
\* to its tenths, times 10^shift, and the digits dropped behind them: a finer
\* fraction is read as the tenth below it, or as the tenth above when the
\* tenth below is a whole number, so that it stays a fraction on the same
\* side of every whole number.
Rounded(kept, dropped, shift) ==
    IF (\E i \in 1..Len(dropped) : dropped[i] # "0") /\ DigitsValue(kept) % 10 = 0
    THEN DigitsValue(kept) * Pow10(shift) + 1
    ELSE DigitsValue(kept) * Pow10(shift)

\* the tenths of the number whose digits are ds, the first `keep` of them
\* down to the tenths
TenthsOf(ds, keep) ==
    IF keep >= Len(ds) THEN Rounded(ds, <<>>, keep - Len(ds))
    ELSE IF keep <= 0 THEN Rounded(<<>>, ds, 0)
    ELSE Rounded(SubSeq(ds, 1, keep), SubSeq(ds, keep + 1, Len(ds)), 0)

\* the position of the first c1 or c2 in s, Len(s) + 1 without one
FirstOf(s, c1, c2) ==
    IF \E i \in 1..Len(s) : s[i] \in {c1, c2}
    THEN CHOOSE i \in 1..Len(s) : s[i] \in {c1, c2} /\ \A j \in 1..(i - 1) : s[j] \notin {c1, c2}
    ELSE Len(s) + 1

\* an exponent part: nothing, or e[+-]digits
ExpOk(ex) ==
    ex = <<>> \/ (Signed(Tail(ex)).rest # <<>> /\ AllDigits(Signed(Tail(ex)).rest))

ExpValue(ex) ==
    IF ex = <<>> THEN 0 ELSE Signed(Tail(ex)).sign * DigitsValue(Signed(Tail(ex)).rest)

\* digits[.digits] with digits on at least one side of the point, and an
\* exponent part
ParseParts(sign, ip, fp, ex) ==
    IF AllDigits(ip) /\ AllDigits(fp) /\ Len(ip) + Len(fp) > 0 /\ ExpOk(ex)
    THEN Num(sign * TenthsOf(ip \o fp, Len(ip) + ExpValue(ex) + 1))
    ELSE NaN

ParseMantissa(sign, mant, ex) ==
    ParseParts(sign, SubSeq(mant, 1, FirstOf(mant, ".", ".") - 1),
               SubSeq(mant, FirstOf(mant, ".", ".") + 1, Len(mant)), ex)

\* the text in lower case (the letters the spellings of infinity use)
Lower(s) ==
    [i \in 1..Len(s) |->
        CASE s[i] = "I" -> "i" [] s[i] = "N" -> "n" [] s[i] = "F" -> "f"
          [] s[i] = "T" -> "t" [] s[i] = "Y" -> "y" [] OTHER -> s[i]]

\* the spellings of infinity, in any case and without blanks around them
InfText(s) == Lower(s) \in {<<"i", "n", "f">>, <<"i", "n", "f", "i", "n", "i", "t", "y">>}

ParseSigned(m) ==
    ParseMantissa(m.sign, SubSeq(m.rest, 1, FirstOf(m.rest, "e", "E") - 1),
                  SubSeq(m.rest, FirstOf(m.rest, "e", "E"), Len(m.rest)))

\* Parsing of one text by pd.to_numeric(errors="coerce"): blanks around the
\* text are skipped, and a float literal [+-]digits[.digits][e[+-]digits]
\* (digits on at least one side of the point) becomes its number; [+-]inf
\* and [+-]infinity become an infinite number; anything else becomes NaN.
ParseText(s) ==
    IF InfText(Signed(s).rest) THEN Inf(Signed(s).sign)
    ELSE ParseSigned(Signed(Strip(s)))

\* pd.to_numeric(series, errors="coerce") on one cell of a column that holds
\* more than booleans: a boolean becomes 1 or 0
to_numeric(v) ==
    CASE v.k \in {"num", "inf"} -> v
      [] v.k = "bool" -> Num(10 * v.n)
      [] v.k = "str"  -> ParseText(v.s)
      [] OTHER        -> NaN

\* Series.fillna(scalar)
fillna(v, fill) == IF IsNa(v) THEN fill ELSE v

\* Series.astype(int) on numbers: truncation toward zero
TruncTenths(n) == IF n >= 0 THEN (n \div 10) * 10 ELSE -(((-n) \div 10) * 10)

astype_int(v) == IF v.k = "num" THEN Num(TruncTenths(v.n)) ELSE v

(***************************************************************************)
(* Tables and results                                                      *)
(***************************************************************************)
SeqToSet(s) == {s[i] : i \in 1..Len(s)}

HasCol(t, c) == c \in SeqToSet(t.cols)

NRows(t) == Len(t.rows)

\* out[c] = vals : an existing column keeps its place, a new one goes last
SetCol(t, c, vals) ==
    [cols |-> IF HasCol(t, c) THEN t.cols ELSE Append(t.cols, c),
     rows |-> [i \in 1..NRows(t) |->
                 [x \in SeqToSet(t.cols) \cup {c} |->
                     IF x = c THEN vals[i] ELSE t.rows[i][x]]]]

\* df[mask] : the rows, in order, whose position is in keep
RECURSIVE SelectSeq2(_, _, _)
SelectSeq2(rows, keep, i) ==
    IF i > Len(rows) THEN <<>>
    ELSE IF i \in keep THEN <<rows[i]>> \o SelectSeq2(rows, keep, i + 1)
    ELSE SelectSeq2(rows, keep, i + 1)

MaskRows(t, keep) == [cols |-> t.cols, rows |-> SelectSeq2(t.rows, keep, 1)]

Ok(t) == [kind |-> "table", table |-> t]

Raise(exc, msg, names) == [kind |-> "error", exc |-> exc, msg |-> msg, names |-> names]

IsTable(r) == r.kind = "table"

IsError(r) == r.kind = "error"

\* a check that reports only the first absent name
ListMissing_first(wanted, have) ==
    LET absent == {i \in 1..Len(wanted) : wanted[i] \notin have}
    IN  IF absent = {} THEN <<>>
        ELSE <<wanted[CHOOSE i \in absent : \A j \in absent : i <= j]>>

\* [c for c in wanted if c not in have]
RECURSIVE ListMissing(_, _)
ListMissing(wanted, have) ==
    IF wanted = <<>> THEN <<>>
    ELSE (IF Head(wanted) \in have THEN <<>> ELSE <<Head(wanted)>>)
         \o ListMissing(Tail(wanted), have)

\* [c for c in wanted if c in have]
RECURSIVE ListPresent(_, _)
ListPresent(wanted, have) ==
    IF wanted = <<>> THEN <<>>
    ELSE (IF Head(wanted) \in have THEN <<Head(wanted)>> ELSE <<>>)
         \o ListPresent(Tail(wanted), have)

(***************************************************************************)
(* Objects.  Every transformation starts with out = df.copy() and writes   *)
(* its columns into out.  A handle tells whether out is the caller's own   *)
(* object.                                                                 *)
(***************************************************************************)
\* a transformation that works on the caller's object
df_same(t) == [shared |-> TRUE, table |-> t]

\* DataFrame.copy(): a new object with the caller's content
df_copy(t) == [shared |-> FALSE, table |-> t]

\* the caller's table after a call that left `written` in the object out
CallerAfter(out, t, written) == IF out.shared THEN written ELSE t

(***************************************************************************)
(* cleaning.py                                                             *)
(***************************************************************************)
DEFAULT_COLUMNS ==
    <<"anio", "idpeligro", "idprovincia", "provincia", "numeromediospersonal",
      "numeromediospesados", "numeromediosaereos", "perdidassuperficiales",
      "idcausa">>

\* "none" stands for columns=None
NoColumns == <<"<None>">>

\* a selection that keeps every column of the raw table
select_columns_keep_all(t, columns) == t

select_columns(t, columns) ==
    LET cols    == IF columns = NoColumns THEN DEFAULT_COLUMNS ELSE columns
        present == ListPresent(cols, SeqToSet(t.cols))
    IN  [cols |-> present,
         rows |-> [i \in 1..NRows(t) |-> [x \in SeqToSet(present) |-> t.rows[i][x]]]]

lower == 400

upper == 499

\* a range test that leaves the upper bound out
between_exclusive(v, lo, up) == v.k = "num" /\ 10 * lo <= v.n /\ v.n < 10 * up

\* Series.between(lower, upper, inclusive="both") on one cell: a missing cell
\* compares False
between(v, lo, up) == v.k = "num" /\ 10 * lo <= v.n /\ v.n <= 10 * up

\* comparing a text with an int raises TypeError
flag_intentional(t) ==
    IF HasCol(t, "idcausa")
    THEN IF \E i \in 1..NRows(t) : t.rows[i]["idcausa"].k = "str"
         THEN Raise("TypeError", "'>=' not supported between 'str' and 'int'", <<>>)
         ELSE Ok(SetCol(t, "intencionado",
                   [i \in 1..NRows(t) |-> Bool(between(t.rows[i]["idcausa"], lower, upper))]))
    ELSE Ok(SetCol(t, "intencionado", [i \in 1..NRows(t) |-> Bool(FALSE)]))

\* pd.to_numeric(col, errors="coerce").fillna(-1).astype(int)
coerce_id(v) == astype_int(fillna(to_numeric(v), Int10(-1)))

\* pd.to_numeric(col, errors="coerce").fillna(0)
coerce_resource(v) == fillna(to_numeric(v), Int10(0))

\* if c in out.columns: out[c] = pd.to_numeric(out[c], ...).fillna(-1).astype(int)
coerce_id_col(t, c) ==
    IF HasCol(t, c)
    THEN SetCol(t, c, [i \in 1..NRows(t) |-> coerce_id(t.rows[i][c])])
    ELSE t

\* a column of booleans only: pd.to_numeric returns it as it is
AllBool(t, c) == NRows(t) > 0 /\ \A i \in 1..NRows(t) : t.rows[i][c].k = "bool"

\* if c in out.columns: out[c] = pd.to_numeric(out[c], errors="coerce")
to_numeric_col(t, c) ==
    IF HasCol(t, c) /\ ~AllBool(t, c)
    THEN SetCol(t, c, [i \in 1..NRows(t) |-> to_numeric(t.rows[i][c])])
    ELSE t

\* if c in out.columns: out[c] = pd.to_numeric(out[c], ...).fillna(0)
coerce_resource_col(t, c) ==
    IF HasCol(t, c) /\ ~AllBool(t, c)
    THEN SetCol(t, c, [i \in 1..NRows(t) |-> coerce_resource(t.rows[i][c])])
    ELSE t

TableOf(r) == r.table

\* a column in which pd.to_numeric finds an infinite number: astype(int)
\* raises on it (IntCastingNaNError, a ValueError)
NonFinite(t, c) ==
    HasCol(t, c) /\ \E i \in 1..NRows(t) : to_numeric(t.rows[i][c]).k = "inf"

coerce_types(t) ==
    IF NonFinite(t, "idpeligro")
    THEN Raise("ValueError", "Cannot convert non-finite values (NA or inf) to integer",
               <<"idpeligro">>)
    ELSE IF NonFinite(t, "idprovincia")
    THEN Raise("ValueError", "Cannot convert non-finite values (NA or inf) to integer",
               <<"idprovincia">>)
    ELSE LET t1 == coerce_id_col(t, "idpeligro")
             t2 == coerce_id_col(t1, "idprovincia")
             t3 == to_numeric_col(t2, "perdidassuperficiales")
             t4 == coerce_resource_col(t3, "numeromediospersonal")
             t5 == coerce_resource_col(t4, "numeromediospesados")
         IN  Ok(coerce_resource_col(t5, "numeromediosaereos"))

\* the content of out when coerce_types returns or raises: idpeligro is
\* assigned before idprovincia is cast
coerce_types_out(t) ==
    IF NonFinite(t, "idpeligro") THEN t
    ELSE IF NonFinite(t, "idprovincia") THEN coerce_id_col(t, "idpeligro")
    ELSE TableOf(coerce_types(t))

add_hectareas_alias(t) ==
    IF HasCol(t, "perdidassuperficiales")
    THEN SetCol(t, "hectareas_quemadas",
            [i \in 1..NRows(t) |-> fillna(t.rows[i]["perdidassuperficiales"], Int10(0))])
    ELSE SetCol(t, "hectareas_quemadas", [i \in 1..NRows(t) |-> Int10(0)])

\* the step of a pipeline after a step that returned r: the error r is
\* goes on to the caller
AliasStep(r) == IF IsError(r) THEN r ELSE Ok(add_hectareas_alias(r.table))

CoerceStep(r) == IF IsError(r) THEN r ELSE AliasStep(coerce_types(r.table))

\* df = select_columns(df_raw, columns); df = flag_intentional(df);
\* df = coerce_types(df); df = add_hectareas_alias(df)
prepare_wildfires(t, columns) ==
    CoerceStep(flag_intentional(select_columns(t, columns)))

(***************************************************************************)
(* geo.py.  A geo collection is [features |-> <<feature, ...>>]; a feature  *)
(* is [bag, props, geometry]: bag tells what its "properties" member is    *)
(* ("dict": a property bag, "null": None, "absent": the feature has no     *)
(* such member), props is the property bag (a function from key to cell)   *)
(* and geometry stands for the opaque geometry.                            *)
(***************************************************************************)
\* whether feat.get("properties", {}) is None
NullBag(feat) == feat.bag = "null"

\* feat.get("properties", {}) where it is a dict
PropsOf(feat) == IF feat.bag = "dict" THEN feat.props ELSE <<>>

\* `key in None` in the filter of the comprehension
NullBagError ==
    Raise("TypeError", "argument of type 'NoneType' is not iterable", <<"properties">>)

\* an integer literal of Python: digits, with single underscores between them
IntLiteral(s) ==
    /\ s # <<>>
    /\ \A i \in 1..Len(s) :
          \/ IsDigit(s[i])
          \/ s[i] = "_" /\ 1 < i /\ i < Len(s) /\ IsDigit(s[i - 1]) /\ IsDigit(s[i + 1])

\* What int() reads of a text: an ASCII character as it is (the separators
\* \x1c to \x1f, white space to str.isspace, are no blanks to int()), a white
\* space character beyond ASCII as a blank, and a decimal digit beyond ASCII
\* as its ASCII digit.
AsciiForm(s) ==
    [i \in 1..Len(s) |->
        IF s[i] \in UnicodeSpace THEN " "
        ELSE IF IsUnicodeDigit(s[i]) THEN AsciiDigitOf(s[i])
        ELSE s[i]]

\* Python's int(x) on a property value or a year: a number is cut toward
\* zero, a text is brought to its ASCII form, stripped of blanks and must be
\* a signed integer literal; ok is FALSE where int() raises, exc is the
\* exception: TypeError for None, ValueError for a text that is no literal
\* and for NaN
python_int(v) ==
    CASE v.k = "num" -> [ok |-> TRUE, v |-> TruncTenths(v.n) \div 10, exc |-> ""]
      [] v.k = "inf" -> [ok |-> FALSE, v |-> 0, exc |-> "OverflowError"]
      [] v.k = "bool" -> [ok |-> TRUE, v |-> v.n, exc |-> ""]
      [] v.k = "str" ->
           LET m == Signed(Strip(AsciiForm(v.s)))
           IN  IF IntLiteral(m.rest)
               THEN [ok |-> TRUE,
                     v |-> m.sign * DigitsValue(SelectSeq(m.rest, IsDigit)),
                     exc |-> ""]
               ELSE [ok |-> FALSE, v |-> 0, exc |-> "ValueError"]
      [] v.k = "nan" -> [ok |-> FALSE, v |-> 0, exc |-> "ValueError"]
      [] OTHER -> [ok |-> FALSE, v |-> 0, exc |-> "TypeError"]

\* d[k] = v on a dict
DictPut(d, k, v) == [x \in DOMAIN d \cup {k} |-> IF x = k THEN v ELSE d[x]]

\* a comprehension in which the first feature with a code wins
RECURSIVE build_first_wins(_, _, _, _)
build_first_wins(features, code_key, name_key, acc) ==
    IF features = <<>> THEN [kind |-> "map", map |-> acc]
    ELSE IF NullBag(Head(features)) THEN NullBagError
    ELSE LET props == PropsOf(Head(features))
         IN  IF code_key \in DOMAIN props /\ name_key \in DOMAIN props
             THEN LET key == python_int(props[code_key])
                  IN  IF ~key.ok THEN Raise(key.exc, "int()", <<code_key>>)
                      ELSE build_first_wins(Tail(features), code_key, name_key,
                              IF key.v \in DOMAIN acc THEN acc
                              ELSE DictPut(acc, key.v, props[name_key]))
             ELSE build_first_wins(Tail(features), code_key, name_key, acc)

\* the dict comprehension of build_provinces_map, feature by feature
RECURSIVE build_from(_, _, _, _)
build_from(features, code_key, name_key, acc) ==
    IF features = <<>> THEN [kind |-> "map", map |-> acc]
    ELSE IF NullBag(Head(features)) THEN NullBagError
    ELSE LET props == PropsOf(Head(features))
         IN  IF code_key \in DOMAIN props /\ name_key \in DOMAIN props
             THEN LET key == python_int(props[code_key])
                  IN  IF ~key.ok THEN Raise(key.exc, "int()", <<code_key>>)
                      ELSE build_from(Tail(features), code_key, name_key,
                                      DictPut(acc, key.v, props[name_key]))
             ELSE build_from(Tail(features), code_key, name_key, acc)

build_provinces_map(gj, code_key, name_key) ==
    build_from(gj.features, code_key, name_key, <<>>)

\* pd.to_numeric(col, errors="coerce").astype("Int64") accepts whole numbers
\* and missing values only
SafeInt64(v) == v.k # "inf" /\ (v.k # "num" \/ v.n % 10 = 0)

\* Series.map(dict) on one id: the dict's value, NaN without an entry
MapLookup(map, id) ==
    IF id.k = "num" /\ (id.n \div 10) \in DOMAIN map THEN map[id.n \div 10] ELSE NaN

\* What Series.fillna(None) does is the pandas build's choice: pandas up to
\* 2.x raises ValueError ("Must specify a fill 'value' or 'method'"), a build
\* that accepts None leaves the series as it is.
FillnaNoneBuilds == {"raises", "keeps"}

map_province_names(t, map, id_col, name_col, build) ==
    IF ~HasCol(t, id_col) THEN Ok(t)
    ELSE LET parsed == [i \in 1..NRows(t) |-> to_numeric(t.rows[i][id_col])]
         IN  IF \E i \in 1..NRows(t) : ~SafeInt64(parsed[i])
             THEN Raise("TypeError", "cannot safely cast non-equivalent float64 to int64",
                        <<id_col>>)
             ELSE LET ids    == [i \in 1..NRows(t) |-> astype_int(fillna(parsed[i], Int10(-1)))]
                      out    == SetCol(t, id_col, ids)
                      mapped == [i \in 1..NRows(t) |-> MapLookup(map, ids[i])]
                  IN  IF HasCol(out, name_col)
                      THEN Ok(SetCol(out, name_col,
                                [i \in 1..NRows(t) |->
                                    IF IsNa(mapped[i]) THEN out.rows[i][name_col]
                                    ELSE mapped[i]]))
                      ELSE IF build = "raises"
                      THEN Raise("ValueError", "Must specify a fill 'value' or 'method'.",
                                 <<name_col>>)
                      ELSE Ok(SetCol(out, name_col, mapped))

\* the content of out when map_province_names returns or raises: the id
\* column is assigned (line 101) before the name column is computed
map_province_names_out(t, map, id_col, name_col, build) ==
    LET r == map_province_names(t, map, id_col, name_col, build)
    IN  IF IsTable(r) THEN r.table
        ELSE IF r.exc = "ValueError"
        THEN SetCol(t, id_col,
                [i \in 1..NRows(t) |-> coerce_id(t.rows[i][id_col])])
        ELSE t

\* a conversion that lets NaN through
to_jsonable_raw(v) == v

\* _to_jsonable: a missing value becomes None, numbers become native numbers
to_jsonable(v) == IF IsNa(v) THEN Null ELSE v

\* cols_to_copy
ColsToCopy(t, df_key, columns) ==
    IF columns = NoColumns
    THEN SelectSeq(t.cols, LAMBDA c : c # df_key)
    ELSE SelectSeq(columns, LAMBDA c : HasCol(t, c) /\ c # df_key)

\* the rows of the lookup whose index label is the feature's name; a feature
\* without a name has key None, which labels no row of a text index
LookupHits(t, df_key, feat, geo_name_field) ==
    LET props == PropsOf(feat)
    IN  IF geo_name_field \notin DOMAIN props \/ IsNa(props[geo_name_field]) THEN {}
        ELSE {i \in 1..NRows(t) : t.rows[i][df_key] = props[geo_name_field]}

\* lookup.loc[key] is a DataFrame when several rows carry the key, and
\* _to_jsonable(row[col]) then raises ValueError (truth value of a Series)
Ambiguous(t, df_key, feat, geo_name_field, cols) ==
    cols # <<>> /\ Cardinality(LookupHits(t, df_key, feat, geo_name_field)) > 1

\* feature.setdefault("properties", {}): a member that is there, None
\* included, is left as it is
WithBag(feat) ==
    IF NullBag(feat) THEN feat ELSE [feat EXCEPT !.bag = "dict", !.props = PropsOf(feat)]

\* one pass of the loop body over a feature
EnrichFeature(t, df_key, feat, geo_name_field, cols) ==
    LET props == PropsOf(feat)
        hits  == LookupHits(t, df_key, feat, geo_name_field)
    IN  [feat EXCEPT
           !.bag = "dict",
           !.props = [x \in DOMAIN props \cup SeqToSet(cols) |->
                        IF x \in SeqToSet(cols)
                        THEN IF hits = {} THEN Null
                             ELSE to_jsonable(t.rows[CHOOSE i \in hits : TRUE][x])
                        ELSE props[x]]]

\* the loop over gj["features"]: the features as the loop leaves them,
\* whether it raised and what.  On a feature whose "properties" is None,
\* props.get raises AttributeError.
RECURSIVE EnrichLoop(_, _, _, _, _, _)
EnrichLoop(t, df_key, features, geo_name_field, cols, i) ==
    IF i > Len(features) THEN [features |-> features, raised |-> FALSE, exc |-> ""]
    ELSE IF NullBag(features[i])
    THEN [features |-> features, raised |-> TRUE, exc |-> "AttributeError"]
    ELSE IF Ambiguous(t, df_key, features[i], geo_name_field, cols)
    THEN [features |-> [features EXCEPT ![i] = WithBag(features[i])], raised |-> TRUE,
          exc |-> "ValueError"]
    ELSE EnrichLoop(t, df_key,
                    [features EXCEPT
                        ![i] = EnrichFeature(t, df_key, features[i], geo_name_field, cols)],
                    geo_name_field, cols, i + 1)

\* the error the loop raised
LoopError(exc) ==
    Raise(exc,
          IF exc = "AttributeError" THEN "'NoneType' object has no attribute 'get'"
          ELSE "The truth value of a Series is ambiguous",
          <<>>)

\* an enrichment that never copies the collection
enrich_in_place(t, gj, geo_name_field, df_key, columns, deepcopy_geo) ==
    IF ~HasCol(t, df_key)
    THEN [ret |-> Raise("KeyError", "set_index", <<df_key>>), caller |-> gj]
    ELSE LET cols == ColsToCopy(t, df_key, columns)
             loop == EnrichLoop(t, df_key, gj.features, geo_name_field, cols, 1)
             done == [gj EXCEPT !.features = loop.features]
         IN  [ret |-> IF loop.raised
                      THEN LoopError(loop.exc)
                      ELSE [kind |-> "geo", geo |-> done, same |-> TRUE],
              caller |-> done]

\* enrich_geojson_with_dataframe: ret is what the call returns or raises,
\* caller is the collection the caller passed, as the call leaves it
enrich_geojson_with_dataframe(t, gj, geo_name_field, df_key, columns, deepcopy_geo) ==
    IF ~HasCol(t, df_key)
    THEN [ret |-> Raise("KeyError", "set_index", <<df_key>>), caller |-> gj]
    ELSE LET cols == ColsToCopy(t, df_key, columns)
             loop == EnrichLoop(t, df_key, gj.features, geo_name_field, cols, 1)
             done == [gj EXCEPT !.features = loop.features]
         IN  [ret |-> IF loop.raised
                      THEN LoopError(loop.exc)
                      ELSE [kind |-> "geo", geo |-> done, same |-> ~deepcopy_geo],
              caller |-> IF deepcopy_geo THEN gj ELSE done]

(***************************************************************************)
(* aggregates.py                                                           *)
(***************************************************************************)
RESOURCE_COLUMNS == <<"numeromediospersonal", "numeromediospesados", "numeromediosaereos">>

Alphabet ==
    <<"A", "B", "C", "D", "E", "F", "G", "H", "I", "J", "K", "L", "M", "N", "O",
      "P", "Q", "R", "S", "T", "U", "V", "W", "X", "Y", "Z">>

CharRank(c) == CHOOSE i \in 1..Len(Alphabet) : Alphabet[i] = c

RECURSIVE LexLess(_, _)
LexLess(a, b) ==
    IF b = <<>> THEN FALSE
    ELSE IF a = <<>> THEN TRUE
    ELSE IF a[1] # b[1] THEN CharRank(a[1]) < CharRank(b[1])
    ELSE LexLess(Tail(a), Tail(b))

\* a <= b on two numbers, finite or not
NumLeq(a, b) ==
    IF a.k = "inf" THEN a.n = -1 \/ b = a
    ELSE IF b.k = "inf" THEN b.n = 1
    ELSE a.n <= b.n

\* the order groupby(sort=True) gives the group keys: numbers by value,
\* texts lexicographically
KeyLess(a, b) ==
    CASE a.k \in {"num", "inf"} /\ b.k \in {"num", "inf"} -> a # b /\ NumLeq(a, b)
      [] a.k = "str" /\ b.k = "str" -> LexLess(a.s, b.s)

RECURSIVE SortKeys(_)
SortKeys(S) ==
    IF S = {} THEN <<>>
    ELSE LET m == CHOOSE x \in S : \A y \in S \ {x} : KeyLess(x, y)
         IN  <<m>> \o SortKeys(S \ {m})

\* groupby drops the rows whose key is missing (dropna=True)
GroupKeys(t, keycol) ==
    SortKeys({t.rows[i][keycol] : i \in {j \in 1..NRows(t) : ~IsNa(t.rows[j][keycol])}})

\* a boolean in arithmetic: 1 or 0
AsNumber(v) == IF v.k = "bool" THEN Num(10 * v.n) ELSE v

\* a + b on two numbers: an infinite operand gives itself, the two
\* infinities together give NaN
AddNumbers(a, b) ==
    IF a.k = "num" /\ b.k = "num" THEN Num(a.n + b.n)
    ELSE IF a.k = "inf" /\ b.k = "inf" THEN (IF a = b THEN a ELSE NaN)
    ELSE IF a.k = "inf" THEN a
    ELSE b

\* an aggregation that keeps the group's first value instead of summing
GroupSum_first(t, keycol, key, c, i) ==
    LET hits == {j \in i..NRows(t) : t.rows[j][keycol] = key /\ t.rows[j][c].k = "num"}
    IN  IF hits = {} THEN Num(0)
        ELSE t.rows[CHOOSE j \in hits : \A q \in hits : j <= q][c]

\* .sum() of column c over the rows of one group from row i on, missing
\* cells skipped and True counted as 1; NaN once the two infinities have met
RECURSIVE GroupSum(_, _, _, _, _)
GroupSum(t, keycol, key, c, i) ==
    IF i > NRows(t) THEN Num(0)
    ELSE LET rest == GroupSum(t, keycol, key, c, i + 1)
         IN  IF t.rows[i][keycol] = key /\ t.rows[i][c].k \in {"num", "inf", "bool"}
             THEN (IF rest.k = "nan" THEN NaN ELSE AddNumbers(AsNumber(t.rows[i][c]), rest))
             ELSE rest

\* out.groupby(keycol)[valcols].sum().reset_index(), the sums named outcols
groupby_sum(t, keycol, valcols, outcols) ==
    IF ~HasCol(t, keycol) THEN Raise("KeyError", "groupby", <<keycol>>)
    ELSE LET keys == GroupKeys(t, keycol)
         IN  Ok([cols |-> <<keycol>> \o outcols,
                 rows |-> [g \in 1..Len(keys) |->
                    [x \in {keycol} \cup SeqToSet(outcols) |->
                        IF x = keycol THEN keys[g]
                        ELSE LET j == CHOOSE q \in 1..Len(outcols) : outcols[q] = x
                             IN  GroupSum(t, keycol, keys[g], valcols[j], 1)]]])

\* an addition that counts a missing operand as 0
AddCells_skipna(a, b) ==
    Num((IF a.k = "num" THEN a.n ELSE 0) + (IF b.k = "num" THEN b.n ELSE 0))

\* a + b on two cells of numeric columns: a missing operand gives missing,
\* two booleans give their "or"
AddCells(a, b) ==
    IF a.k = "bool" /\ b.k = "bool" THEN Bool(a.n + b.n > 0)
    ELSE IF a.k \in {"num", "inf", "bool"} /\ b.k \in {"num", "inf", "bool"}
    THEN AddNumbers(AsNumber(a), AsNumber(b))
    ELSE NaN

add_total_resources(t) ==
    LET missing == ListMissing(RESOURCE_COLUMNS, SeqToSet(t.cols))
    IN  IF missing # <<>>
        THEN Raise("KeyError", "Faltan columnas de recursos", missing)
        ELSE Ok(SetCol(t, "total_medios",
                  [i \in 1..NRows(t) |->
                      AddCells(AddCells(t.rows[i]["numeromediospersonal"],
                                        t.rows[i]["numeromediospesados"]),
                               t.rows[i]["numeromediosaereos"])]))

MapColumns ==
    <<"total_medios", "numeromediospersonal", "numeromediospesados", "numeromediosaereos">>

group_by_province_for_map(t, province_col) ==
    LET withTotal == IF HasCol(t, "total_medios") THEN Ok(t) ELSE add_total_resources(t)
    IN  IF IsError(withTotal) THEN withTotal
        ELSE LET out     == withTotal.table
                 missing == ListMissing(RESOURCE_COLUMNS, SeqToSet(out.cols))
             IN  IF missing # <<>>
                 THEN Raise("KeyError",
                            "Faltan columnas de recursos para agregar por provincia", missing)
                 ELSE groupby_sum(out, province_col, MapColumns, MapColumns)

\* a resolution that prefers the raw column
AreaColumn_raw_first(t, area_col, fallback_area_col) ==
    IF HasCol(t, fallback_area_col) THEN fallback_area_col ELSE area_col

\* Incendios.for_map: group_by_province_for_map(add_total_resources(self.df))
for_map(t) ==
    LET withTotal == add_total_resources(t)
    IN  IF IsError(withTotal) THEN withTotal
        ELSE group_by_province_for_map(withTotal.table, "provincia")

\* the dashboard's map_aggregation_cached(df_filt)
map_aggregation_cached(t) ==
    LET withTotal == add_total_resources(t)
    IN  IF IsError(withTotal) THEN withTotal
        ELSE group_by_province_for_map(withTotal.table, "provincia")

\* col = area_col if area_col in out.columns else fallback_area_col
AreaColumn(t, area_col, fallback_area_col) ==
    IF HasCol(t, area_col) THEN area_col ELSE fallback_area_col

aggregate_burned_area_by_year(t, year_col, area_col, fallback_area_col) ==
    LET col == AreaColumn(t, area_col, fallback_area_col)
    IN  IF ~HasCol(t, col)
        THEN Raise("KeyError", "No se encontro columna de area quemada",
                   <<area_col, fallback_area_col>>)
        ELSE groupby_sum(t, year_col, <<col>>, <<"hectareas_quemadas">>)

aggregate_resources_by_year(t, year_col, resource_cols) ==
    LET missing == ListMissing(resource_cols, SeqToSet(t.cols))
    IN  IF missing # <<>>
        THEN Raise("KeyError", "Faltan columnas de recursos para agregar por anio", missing)
        ELSE groupby_sum(t, year_col, resource_cols, resource_cols)

IndexPermutations(n) == {f \in [1..n -> 1..n] : \A i, j \in 1..n : i # j => f[i] # f[j]}

\* a may come before b in sort_values(ascending=ascending): NaN comes last
\* in both directions (na_position="last")
SortLeq(a, b, ascending) ==
    IF b.k = "nan" THEN TRUE
    ELSE IF a.k = "nan" THEN FALSE
    ELSE IF ascending THEN NumLeq(a, b)
    ELSE NumLeq(b, a)

\* a sort that ignores the requested direction
SortedOrders_ascending(rows, c, ascending) ==
    {[i \in 1..Len(rows) |-> rows[f[i]]] : f \in
        {g \in IndexPermutations(Len(rows)) :
            \A i \in 1..(Len(rows) - 1) : SortLeq(rows[g[i]][c], rows[g[i + 1]][c], TRUE)}}

\* sort_values(by=c, ascending=ascending): the orders of the rows a sort may
\* return; rows with equal values come in an order the sort algorithm picks
SortedOrders(rows, c, ascending) ==
    {[i \in 1..Len(rows) |-> rows[f[i]]] : f \in
        {g \in IndexPermutations(Len(rows)) :
            \A i \in 1..(Len(rows) - 1) :
                SortLeq(rows[g[i]][c], rows[g[i + 1]][c], ascending)}}

\* DataFrame.head(n): the first n rows; all but the last -n when n < 0
head(rows, n) ==
    IF n >= 0 THEN SubSeq(rows, 1, IF n < Len(rows) THEN n ELSE Len(rows))
    ELSE SubSeq(rows, 1, IF Len(rows) + n > 0 THEN Len(rows) + n ELSE 0)

\* the results top_provinces_by_burned_area may return
top_provinces_by_burned_area(t, n, province_col, area_col, fallback_area_col, ascending) ==
    LET col == AreaColumn(t, area_col, fallback_area_col)
    IN  IF ~HasCol(t, col)
        THEN {Raise("KeyError", "No se encontro columna de area quemada",
                    <<area_col, fallback_area_col>>)}
        ELSE LET agg == groupby_sum(t, province_col, <<col>>, <<"hectareas_quemadas">>)
             IN  IF IsError(agg) THEN {agg}
                 ELSE {Ok([cols |-> agg.table.cols, rows |-> head(o, n)]) :
                          o \in SortedOrders(agg.table.rows, "hectareas_quemadas", ascending)}

\* sort_values uses an unstable sort: which of two rows with equal values
\* comes first is fixed by the build, here the earlier or the later row
TieBuilds == {"first", "last"}

PositionIn(rows, r) == CHOOSE p \in 1..Len(rows) : rows[p] = r

\* sort_values(by=c, ascending=ascending) in a build that orders ties `ties`
sort_values(rows, c, ascending, ties) ==
    CHOOSE o \in SortedOrders(rows, c, ascending) :
        \A i \in 1..(Len(o) - 1) :
            o[i][c] = o[i + 1][c] =>
                IF ties = "first"
                THEN PositionIn(rows, o[i]) < PositionIn(rows, o[i + 1])
                ELSE PositionIn(rows, o[i]) > PositionIn(rows, o[i + 1])

\* top_provinces_by_burned_area in one build
top_provinces_in_build(t, n, province_col, area_col, fallback_area_col, ascending, ties) ==
    LET col == AreaColumn(t, area_col, fallback_area_col)
    IN  IF ~HasCol(t, col)
        THEN Raise("KeyError", "No se encontro columna de area quemada",
                   <<area_col, fallback_area_col>>)
        ELSE LET agg == groupby_sum(t, province_col, <<col>>, <<"hectareas_quemadas">>)
             IN  IF IsError(agg) THEN agg
                 ELSE Ok([cols |-> agg.table.cols,
                          rows |-> head(sort_values(agg.table.rows, "hectareas_quemadas",
                                                    ascending, ties), n)])

(***************************************************************************)
(* plots.py: the tables the figures are drawn from                         *)
(***************************************************************************)
\* line_hectares_by_year up to serie: the summed column keeps its name
line_hectares_by_year(t, year_col, area_col, fallback_area_col) ==
    LET col == AreaColumn(t, area_col, fallback_area_col)
    IN  IF ~HasCol(t, col)
        THEN Raise("KeyError", "No se encontro columna de area quemada",
                   <<area_col, fallback_area_col>>)
        ELSE groupby_sum(t, year_col, <<col>>, <<col>>)

\* horizontal_top_provinces up to top: the tables the bars may be drawn from
\* (descending sort, head(n), ascending sort)
horizontal_top_provinces(t, n, province_col, area_col, fallback_area_col) ==
    LET col == AreaColumn(t, area_col, fallback_area_col)
    IN  IF ~HasCol(t, col)
        THEN {Raise("KeyError", "No se encontro columna de area quemada",
                    <<area_col, fallback_area_col>>)}
        ELSE LET agg == groupby_sum(t, province_col, <<col>>, <<"hectareas_quemadas">>)
             IN  IF IsError(agg) THEN {agg}
                 ELSE UNION {{Ok([cols |-> agg.table.cols, rows |-> o2]) :
                                 o2 \in SortedOrders(head(o, n), "hectareas_quemadas", TRUE)} :
                             o \in SortedOrders(agg.table.rows, "hectareas_quemadas", FALSE)}

(***************************************************************************)
(* spain_wildfires_dashboard.py: the year / intent filter                  *)
(***************************************************************************)
\* a year test that leaves the last year of the range out
mask_year_open(t, y0, y1) ==
    {i \in 1..NRows(t) :
        /\ t.rows[i]["anio"].k \in {"num", "bool"}
        /\ AsNumber(t.rows[i]["anio"]).n >= 10 * y0
        /\ AsNumber(t.rows[i]["anio"]).n < 10 * y1}

\* mask_year = (df["anio"] >= y0) & (df["anio"] <= y1), as the set of row
\* positions where it is True, on a column without a text: a boolean year
\* compares as 1 or 0, a missing year compares False, and an infinite year
\* fails one of the two tests
mask_year(t, y0, y1) ==
    {i \in 1..NRows(t) :
        /\ t.rows[i]["anio"].k \in {"num", "bool"}
        /\ AsNumber(t.rows[i]["anio"]).n >= 10 * y0
        /\ AsNumber(t.rows[i]["anio"]).n <= 10 * y1}

\* df["anio"] >= y0 on a column that holds a text: comparing a text with an
\* int raises TypeError
TextYear(t) == \E i \in 1..NRows(t) : t.rows[i]["anio"].k = "str"

YearTypeError ==
    Raise("TypeError", "'>=' not supported between instances of 'str' and 'int'", <<"anio">>)

\* df["intencionado"] == b
mask_flag(t, b) ==
    {i \in 1..NRows(t) :
        \/ t.rows[i]["intencionado"] = Bool(b)
        \/ t.rows[i]["intencionado"] = Int10(IF b THEN 1 ELSE 0)}

filter_by_year_and_intent(t, y0, y1, show_intentional, show_non_intentional) ==
    IF ~HasCol(t, "anio") THEN Raise("KeyError", "getitem", <<"anio">>)
    ELSE IF TextYear(t) THEN YearTypeError
    ELSE IF show_intentional /\ show_non_intentional
    THEN Ok(MaskRows(t, mask_year(t, y0, y1)))
    ELSE IF ~HasCol(t, "intencionado") THEN Raise("KeyError", "getitem", <<"intencionado">>)
    ELSE IF show_intentional
    THEN Ok(MaskRows(t, mask_year(t, y0, y1) \cap mask_flag(t, TRUE)))
    ELSE Ok(MaskRows(t, mask_year(t, y0, y1) \cap mask_flag(t, FALSE)))

filter_by_year_and_intent_cached(t, y0, y1, show_intentional, show_non_intentional) ==
    IF ~HasCol(t, "anio") THEN Raise("KeyError", "getitem", <<"anio">>)
    ELSE IF TextYear(t) THEN YearTypeError
    ELSE IF show_intentional /\ show_non_intentional
    THEN Ok(MaskRows(t, mask_year(t, y0, y1)))
    ELSE IF ~HasCol(t, "intencionado") THEN Raise("KeyError", "getitem", <<"intencionado">>)
    ELSE IF show_intentional
    THEN Ok(MaskRows(t, mask_year(t, y0, y1) \cap mask_flag(t, TRUE)))
    ELSE Ok(MaskRows(t, mask_year(t, y0, y1) \cap mask_flag(t, FALSE)))

\* the year half of the filter alone: df[mask_year]
filter_year(t, y0, y1) ==
    IF ~HasCol(t, "anio") THEN Raise("KeyError", "getitem", <<"anio">>)
    ELSE IF TextYear(t) THEN YearTypeError
    ELSE Ok(MaskRows(t, mask_year(t, y0, y1)))

\* the intent half of the filter alone, with the branches of the code
filter_intent(t, show_intentional, show_non_intentional) ==
    IF show_intentional /\ show_non_intentional THEN Ok(t)
    ELSE IF ~HasCol(t, "intencionado") THEN Raise("KeyError", "getitem", <<"intencionado">>)
    ELSE IF show_intentional THEN Ok(MaskRows(t, mask_flag(t, TRUE)))
    ELSE Ok(MaskRows(t, mask_flag(t, FALSE)))

(***************************************************************************)
(* Inputs.  A layout names the columns of a table and the cells each       *)
(* column may hold; the tables over a layout have at most MaxRows rows.    *)
(***************************************************************************)
MaxRows == 2

RowsOver(lay) == [SeqToSet(lay.cols) -> lay.dom]

SeqsUpTo(S, n) == UNION {[1..m -> S] : m \in 0..n}

\* the cells of row r, column by column, come from the layout's sets
RowFits(lay, r) == \A c \in DOMAIN r : r[c] \in lay.of[c]

TablesOver(lay, n) ==
    {[cols |-> lay.cols, rows |-> rs] :
        rs \in SeqsUpTo({r \in [SeqToSet(lay.cols) -> lay.dom] : RowFits(lay, r)}, n)}

Layout(cols, of) ==
    [cols |-> cols, of |-> of, dom |-> UNION {of[c] : c \in SeqToSet(cols)}]

EmptyGeo == [features |-> <<>>]

NoMap == <<>>

Idle == [op |-> "idle"]

NoRet == [kind |-> "none"]

(***************************************************************************)
(* The cleaning functions, called on a raw table (SpecClean)               *)
(***************************************************************************)
CausaCells ==
    {Int10(399), Int10(400), Int10(499), Num(4995), Int10(500), NaN,
     Str(<<"4", "5", "0">>), Str(<<"a", "b", "c">>)}

IdCells ==
    {Int10(7), Num(79), Num(-15), NaN, Str(<<"7">>), Str(<<"a", "b", "c">>),
     Str(<<"-", "2", ".", "5">>), Str(<<"\f", "+", "1", "e", "1">>), Str(<<"i", "n", "f">>)}

ResourceCells == {Int10(3), NaN, Str(<<"4">>), Str(<<"x">>), Str(<<"-", "I", "n", "f">>)}

\* raw burned-area cells: a number, a negative number, a gap, a text
AreaCells == {Num(25), Num(-20), NaN, Str(<<"x">>)}

CleanLayouts ==
    {Layout(<<"idcausa">>, [c \in {"idcausa"} |-> CausaCells]),
     Layout(<<"idpeligro", "numeromediospersonal">>,
            [c \in {"idpeligro", "numeromediospersonal"} |->
                IF c = "idpeligro" THEN IdCells ELSE ResourceCells]),
     Layout(<<"numeromediosaereos", "idprovincia">>,
            [c \in {"numeromediosaereos", "idprovincia"} |->
                IF c = "idprovincia" THEN IdCells ELSE ResourceCells]),
     Layout(<<"codigo", "perdidassuperficiales", "numeromediospesados">>,
            [c \in {"codigo", "perdidassuperficiales", "numeromediospesados"} |->
                CASE c = "codigo" -> {Int10(1)}
                  [] c = "perdidassuperficiales" -> AreaCells
                  [] OTHER -> {Int10(-3), Str(<<"5">>)}])}

CleanColumns == {NoColumns, <<"idpeligro">>, <<"idprovincia", "idcausa">>}

InitClean ==
    /\ df \in UNION {TablesOver(lay, MaxRows) : lay \in CleanLayouts}
    /\ geojson = EmptyGeo
    /\ provinces_map = NoMap
    /\ call = Idle
    /\ ret = NoRet

SelectColumns ==
    /\ \E columns \in CleanColumns :
          /\ call' = [op |-> "select_columns", columns |-> columns]
          /\ ret' = Ok(select_columns(df, columns))
    /\ UNCHANGED <<df, geojson, provinces_map>>

FlagIntentional ==
    /\ call' = [op |-> "flag_intentional"]
    /\ ret' = flag_intentional(df)
    /\ UNCHANGED <<df, geojson, provinces_map>>

CoerceTypes ==
    /\ call' = [op |-> "coerce_types"]
    /\ ret' = coerce_types(df)
    /\ UNCHANGED <<df, geojson, provinces_map>>

AddHectareasAlias ==
    /\ call' = [op |-> "add_hectareas_alias"]
    /\ ret' = Ok(add_hectareas_alias(df))
    /\ UNCHANGED <<df, geojson, provinces_map>>

PrepareWildfires ==
    /\ \E columns \in CleanColumns :
          /\ call' = [op |-> "prepare_wildfires", columns |-> columns]
          /\ ret' = prepare_wildfires(df, columns)
    /\ UNCHANGED <<df, geojson, provinces_map>>

NextClean ==
    \/ SelectColumns
    \/ FlagIntentional
    \/ CoerceTypes
    \/ AddHectareasAlias
    \/ PrepareWildfires

SpecClean == InitClean /\ [][NextClean]_vars

(***************************************************************************)
(* The aggregations, called on a numeric table (SpecAgg)                   *)
(***************************************************************************)
MaxRowsWide == 1

Y2020 == Int10(2020)

Y2021 == Int10(2021)

AggCells ==
    [c \in {"anio", "provincia", "numeromediospersonal", "numeromediospesados",
            "numeromediosaereos", "total_medios", "hectareas_quemadas",
            "perdidassuperficiales"} |->
        CASE c = "anio" -> {Y2020, Y2021, NaN}
          [] c = "provincia" -> {Str(<<"A">>), Str(<<"B">>), NaN}
          [] c = "numeromediospersonal" -> {Int10(1), Int10(2)}
          [] c = "numeromediospesados" -> {Int10(0), NaN}
          [] c = "numeromediosaereos" -> {Int10(3), Int10(5)}
          [] c = "total_medios" -> {Int10(7)}
          [] c = "hectareas_quemadas" -> {Num(15), NaN}
          [] c = "perdidassuperficiales" -> {Int10(2), NaN}]

AggLayout(cols) == Layout(cols, [c \in SeqToSet(cols) |-> AggCells[c]])

\* layouts with every resource column
NarrowLayouts ==
    {AggLayout(<<"anio">> \o RESOURCE_COLUMNS),
     AggLayout(<<"provincia">> \o RESOURCE_COLUMNS),
     AggLayout(<<"provincia", "total_medios">> \o RESOURCE_COLUMNS),
     AggLayout(<<"anio", "hectareas_quemadas", "perdidassuperficiales">>)}

\* the subsequences of a sequence of three names
SubSeqs3(q) ==
    {ListPresent(q, S) : S \in SUBSET SeqToSet(q)}

\* layouts lacking resource columns, with and without total_medios
WideLayouts ==
    {AggLayout(<<"provincia", "anio">> \o r \o t) :
        r \in SubSeqs3(RESOURCE_COLUMNS) \ {RESOURCE_COLUMNS},
        t \in {<<>>, <<"total_medios">>}}

InitAgg ==
    /\ df \in UNION ({TablesOver(lay, MaxRows) : lay \in NarrowLayouts}
                     \cup {TablesOver(lay, MaxRowsWide) : lay \in WideLayouts})
    /\ geojson = EmptyGeo
    /\ provinces_map = NoMap
    /\ call = Idle
    /\ ret = NoRet

AddTotalResources ==
    /\ call' = [op |-> "add_total_resources"]
    /\ ret' = add_total_resources(df)
    /\ UNCHANGED <<df, geojson, provinces_map>>

GroupByProvinceForMap ==
    /\ call' = [op |-> "group_by_province_for_map"]
    /\ ret' = group_by_province_for_map(df, "provincia")
    /\ UNCHANGED <<df, geojson, provinces_map>>

AggregateBurnedAreaByYear ==
    /\ call' = [op |-> "aggregate_burned_area_by_year"]
    /\ ret' = aggregate_burned_area_by_year(df, "anio", "hectareas_quemadas",
                                             "perdidassuperficiales")
    /\ UNCHANGED <<df, geojson, provinces_map>>

AggregateResourcesByYear ==
    /\ call' = [op |-> "aggregate_resources_by_year"]
    /\ ret' = aggregate_resources_by_year(df, "anio", RESOURCE_COLUMNS)
    /\ UNCHANGED <<df, geojson, provinces_map>>

NextAgg ==
    \/ AddTotalResources
    \/ GroupByProvinceForMap
    \/ AggregateBurnedAreaByYear
    \/ AggregateResourcesByYear

SpecAgg == InitAgg /\ [][NextAgg]_vars

(***************************************************************************)
(* top_provinces_by_burned_area / Incendios.top_provinces (SpecTop)        *)
(***************************************************************************)
MaxTopRows == 3

MaxN == 3

TopLayouts ==
    {Layout(<<"provincia", "hectareas_quemadas">>,
            [c \in {"provincia", "hectareas_quemadas"} |->
                IF c = "provincia"
                THEN {Str(<<"A">>), Str(<<"B">>), Str(<<"C">>), NaN}
                ELSE {Int10(1), Int10(2), NaN}])}

InitTop ==
    /\ df \in UNION {TablesOver(lay, MaxTopRows) : lay \in TopLayouts}
    /\ geojson = EmptyGeo
    /\ provinces_map = NoMap
    /\ call = Idle
    /\ ret = NoRet

TopProvinces ==
    /\ \E n \in 0..MaxN, ascending \in BOOLEAN :
          /\ call' = [op |-> "top_provinces_by_burned_area", n |-> n,
                       ascending |-> ascending]
          /\ ret' \in top_provinces_by_burned_area(df, n, "provincia",
                          "hectareas_quemadas", "perdidassuperficiales", ascending)
    /\ UNCHANGED <<df, geojson, provinces_map>>

NextTop == TopProvinces

SpecTop == InitTop /\ [][NextTop]_vars

(***************************************************************************)
(* The burned-area operations on tables with and without the alias and the *)
(* raw column (SpecArea)                                                   *)
(***************************************************************************)
BurnedCells ==
    [c \in {"anio", "provincia", "hectareas_quemadas", "perdidassuperficiales"} |->
        CASE c = "anio" -> {Y2020, Y2021}
          [] c = "provincia" -> {Str(<<"A">>), Str(<<"B">>)}
          [] c = "hectareas_quemadas" -> {Num(15), NaN}
          [] c = "perdidassuperficiales" -> {Int10(2), NaN}]

BurnedLayout(cols) == Layout(cols, [c \in SeqToSet(cols) |-> BurnedCells[c]])

AreaLayouts ==
    {BurnedLayout(<<"anio", "provincia">> \o a) :
        a \in {<<>>, <<"hectareas_quemadas">>, <<"perdidassuperficiales">>,
               <<"perdidassuperficiales", "hectareas_quemadas">>}}
      \cup {BurnedLayout(<<"hectareas_quemadas">>)}

InitArea ==
    /\ df \in UNION {TablesOver(lay, MaxRows) : lay \in AreaLayouts}
    /\ geojson = EmptyGeo
    /\ provinces_map = NoMap
    /\ call = Idle
    /\ ret = NoRet

LineHectaresByYear ==
    /\ call' = [op |-> "line_hectares_by_year"]
    /\ ret' = line_hectares_by_year(df, "anio", "hectareas_quemadas",
                                     "perdidassuperficiales")
    /\ UNCHANGED <<df, geojson, provinces_map>>

HorizontalTopProvinces ==
    /\ \E n \in 0..MaxN :
          /\ call' = [op |-> "horizontal_top_provinces", n |-> n]
          /\ ret' \in horizontal_top_provinces(df, n, "provincia", "hectareas_quemadas",
                                                "perdidassuperficiales")
    /\ UNCHANGED <<df, geojson, provinces_map>>

NextArea ==
    \/ AggregateBurnedAreaByYear
    \/ TopProvinces
    \/ LineHectaresByYear
    \/ HorizontalTopProvinces

SpecArea == InitArea /\ [][NextArea]_vars

(***************************************************************************)
(* The map aggregate of a prepared or filtered table (SpecMap)             *)
(***************************************************************************)
\* resource cells as coerce_types leaves them
PreparedResourceCells == {coerce_resource(v) : v \in ResourceCells}

PreparedCells ==
    [c \in {"provincia", "numeromediospersonal", "numeromediospesados",
            "numeromediosaereos", "total_medios"} |->
        CASE c = "provincia" -> {Str(<<"A">>), Str(<<"B">>)}
          [] c = "numeromediospersonal" -> PreparedResourceCells
          [] c = "numeromediospesados" ->
                {Int10(0), Int10(5), coerce_resource(Str(<<"i", "n", "f">>))}
          [] c = "numeromediosaereos" -> {Int10(2)}
          [] c = "total_medios" -> {Int10(7)}]

PreparedLayout(cols) == Layout(cols, [c \in SeqToSet(cols) |-> PreparedCells[c]])

MapLayouts ==
    {PreparedLayout(<<"provincia">> \o RESOURCE_COLUMNS),
     PreparedLayout(<<"provincia">> \o RESOURCE_COLUMNS \o <<"total_medios">>),
     PreparedLayout(<<"provincia", "numeromediospersonal", "total_medios">>)}

InitMap ==
    /\ df \in UNION {TablesOver(lay, MaxRows) : lay \in MapLayouts}
    /\ geojson = EmptyGeo
    /\ provinces_map = NoMap
    /\ call = Idle
    /\ ret = NoRet

ForMap ==
    /\ call' = [op |-> "for_map"]
    /\ ret' = for_map(df)
    /\ UNCHANGED <<df, geojson, provinces_map>>

MapAggregationCached ==
    /\ call' = [op |-> "map_aggregation_cached"]
    /\ ret' = map_aggregation_cached(df)
    /\ UNCHANGED <<df, geojson, provinces_map>>

NextMap ==
    \/ ForMap
    \/ MapAggregationCached

SpecMap == InitMap /\ [][NextMap]_vars

(***************************************************************************)
(* The dashboard filter on a prepared table (SpecFilter)                   *)
(***************************************************************************)
FilterLayouts ==
    {Layout(<<"anio", "intencionado">>,
            [c \in {"anio", "intencionado"} |->
                IF c = "anio" THEN {Int10(2019), Y2020, Y2021, NaN}
                ELSE {Bool(TRUE), Bool(FALSE)}])}

\* a table whose years were read as texts
TextYearLayouts ==
    {Layout(<<"anio", "intencionado">>,
            [c \in {"anio", "intencionado"} |->
                IF c = "anio" THEN {Str(<<"2", "0", "2", "0">>), Y2021}
                ELSE {Bool(TRUE), Bool(FALSE)}])}

SliderYears == {2019, 2020, 2021}

InitFilter ==
    /\ df \in UNION {TablesOver(lay, MaxRows) : lay \in FilterLayouts \cup TextYearLayouts}
    /\ geojson = EmptyGeo
    /\ provinces_map = NoMap
    /\ call = Idle
    /\ ret = NoRet

YearRanges == {r \in SliderYears \X SliderYears : r[1] <= r[2]}

FilterArgs(op) ==
    {[op |-> op, y0 |-> r[1], y1 |-> r[2], si |-> si, sni |-> sni] :
        r \in YearRanges, si \in BOOLEAN, sni \in BOOLEAN}

FilterByYearAndIntent ==
    /\ \E a \in FilterArgs("filter_by_year_and_intent") :
          /\ call' = a
          /\ ret' = filter_by_year_and_intent(df, a.y0, a.y1, a.si, a.sni)
    /\ UNCHANGED <<df, geojson, provinces_map>>

FilterByYearAndIntentCached ==
    /\ \E a \in FilterArgs("filter_by_year_and_intent_cached") :
          /\ call' = a
          /\ ret' = filter_by_year_and_intent_cached(df, a.y0, a.y1, a.si, a.sni)
    /\ UNCHANGED <<df, geojson, provinces_map>>

\* the two halves applied one after the other, in either order
FilterYearFirst ==
    /\ \E a \in FilterArgs("year") :
          /\ call' = a
          /\ ret' = filter_year(df, a.y0, a.y1)
    /\ UNCHANGED <<df, geojson, provinces_map>>

FilterIntentSecond ==
    /\ call.op = "year"
    /\ IsTable(ret)
    /\ call' = [call EXCEPT !.op = "year_then_intent"]
    /\ ret' = filter_intent(ret.table, call.si, call.sni)
    /\ UNCHANGED <<df, geojson, provinces_map>>

FilterIntentFirst ==
    /\ \E a \in FilterArgs("intent") :
          /\ call' = a
          /\ ret' = filter_intent(df, a.si, a.sni)
    /\ UNCHANGED <<df, geojson, provinces_map>>

FilterYearSecond ==
    /\ call.op = "intent"
    /\ IsTable(ret)
    /\ call' = [call EXCEPT !.op = "intent_then_year"]
    /\ ret' = filter_year(ret.table, call.y0, call.y1)
    /\ UNCHANGED <<df, geojson, provinces_map>>

NextFilter ==
    \/ FilterByYearAndIntent
    \/ FilterByYearAndIntentCached
    \/ FilterYearFirst
    \/ FilterIntentSecond
    \/ FilterIntentFirst
    \/ FilterYearSecond

SpecFilter == InitFilter /\ [][NextFilter]_vars

(***************************************************************************)
(* Province resolution: build_provinces_map, then map_province_names       *)
(* (SpecProv)                                                              *)
(***************************************************************************)
MaxFeatures == 2

Feature(props, g) == [bag |-> "dict", props |-> props, geometry |-> g]

\* a feature without a "properties" member
BareFeature(g) == [bag |-> "absent", props |-> <<>>, geometry |-> g]

\* a feature whose "properties" member is null
NullFeature(g) == [bag |-> "null", props |-> <<>>, geometry |-> g]

\* the property bags over the keys of K, each key absent or holding one of
\* its cells
BagsOver(K, of) ==
    UNION {{p \in [S -> UNION {of[x] : x \in K}] : \A x \in S : p[x] \in of[x]} :
              S \in SUBSET K}

\* collections of at most n features whose bags come from bags; the geometry
\* of the i-th feature is i
GeosOver(bags, n) ==
    UNION {{[features |-> [i \in 1..m |-> Feature(ps[i], i)]] : ps \in [1..m -> bags]} :
              m \in 0..n}

ProvBags ==
    BagsOver({"cod_prov", "name"},
             [x \in {"cod_prov", "name"} |->
                 IF x = "cod_prov" THEN {Int10(1), Str(<<"0", "2">>), Str(<<"\f", "+", "2">>)}
                 ELSE {Str(<<"A">>), Str(<<"B">>), Null}])

ProvIdCells == {Int10(1), Num(15), NaN, Str(<<"2">>), Str(<<"x">>)}

ProvLayouts ==
    {Layout(<<"idprovincia", "provincia">>,
            [c \in {"idprovincia", "provincia"} |->
                IF c = "idprovincia" THEN ProvIdCells ELSE {Str(<<"Z">>), NaN}]),
     Layout(<<"idprovincia">>, [c \in {"idprovincia"} |-> ProvIdCells]),
     Layout(<<"provincia">>, [c \in {"provincia"} |-> {Str(<<"Z">>), NaN}])}

\* province collections, some with a feature that has no property bag, a
\* feature whose property bag is null, or a code that is no integer
ProvGeos ==
    GeosOver(ProvBags, MaxFeatures)
      \cup {[features |-> <<BareFeature(1)>>],
            [features |-> <<BareFeature(1),
                            Feature([cod_prov |-> Int10(1), name |-> Str(<<"A">>)], 2)>>],
            [features |-> <<NullFeature(1)>>],
            [features |-> <<Feature([cod_prov |-> Int10(1), name |-> Str(<<"A">>)], 1),
                            NullFeature(2)>>],
            [features |-> <<Feature([cod_prov |-> Str(<<"\\u0660", "\\u0662">>),
                                     name |-> Str(<<"B">>)], 1)>>],
            [features |-> <<Feature([cod_prov |-> Str(<<"x">>), name |-> Str(<<"A">>)], 1)>>]}

NotBuilt == [built |-> FALSE, map |-> <<>>]

InitProv ==
    /\ df \in UNION {TablesOver(lay, MaxRowsWide) : lay \in ProvLayouts}
    /\ geojson \in ProvGeos
    /\ provinces_map = NotBuilt
    /\ call = Idle
    /\ ret = NoRet

\* self.provinces_map = build_provinces_map(self.geojson)
BuildProvincesMap ==
    /\ call' = [op |-> "build_provinces_map"]
    /\ ret' = build_provinces_map(geojson, "cod_prov", "name")
    /\ provinces_map' = IF IsError(ret') THEN provinces_map
                         ELSE [built |-> TRUE, map |-> ret'.map]
    /\ UNCHANGED <<df, geojson>>

\* map_province_names(df, provinces_map), with the map held at this point
MapProvinceNames ==
    /\ \E build \in FillnaNoneBuilds :
          /\ call' = [op |-> "map_province_names", built |-> provinces_map.built]
          /\ ret' = map_province_names(df, provinces_map.map, "idprovincia",
                                        "provincia", build)
    /\ UNCHANGED <<df, geojson, provinces_map>>

NextProv ==
    \/ BuildProvincesMap
    \/ MapProvinceNames

SpecProv == InitProv /\ [][NextProv]_vars

(***************************************************************************)
(* Geo enrichment of an aggregate table (SpecEnrich)                       *)
(***************************************************************************)
EnrichBags ==
    BagsOver({"name", "total_medios"},
             [x \in {"name", "total_medios"} |->
                 IF x = "name" THEN {Str(<<"A">>), Str(<<"C">>)} ELSE {Int10(9)}])

EnrichGeos ==
    GeosOver(EnrichBags, MaxFeatures)
      \cup {[features |-> <<BareFeature(1)>>],
            [features |-> <<BareFeature(1), Feature([name |-> Str(<<"A">>)], 2)>>],
            [features |-> <<Feature([name |-> Str(<<"A">>)], 1), NullFeature(2)>>]}

EnrichLayouts ==
    {Layout(<<"provincia", "total_medios">>,
            [c \in {"provincia", "total_medios"} |->
                IF c = "provincia" THEN {Str(<<"A">>), Str(<<"B">>)}
                ELSE {Int10(7), NaN}]),
     Layout(<<"total_medios">>, [c \in {"total_medios"} |-> {Int10(7)}])}

EnrichColumns ==
    {NoColumns, <<>>, <<"total_medios">>, <<"provincia", "total_medios", "numeromediosaereos">>}

InitEnrich ==
    /\ df \in UNION {TablesOver(lay, MaxRows) : lay \in EnrichLayouts}
    /\ geojson \in EnrichGeos
    /\ provinces_map = NotBuilt
    /\ call = Idle
    /\ ret = NoRet

\* enrich_geojson_with_dataframe(df, geojson, "name", "provincia", columns,
\* deepcopy_geo); the dashboard's enrich_geojson_cached passes deepcopy_geo=True
EnrichGeojson ==
    /\ \E columns \in EnrichColumns, deepcopy_geo \in BOOLEAN :
          LET r == enrich_geojson_with_dataframe(df, geojson, "name", "provincia",
                                                 columns, deepcopy_geo)
          IN  /\ call' = [op |-> "enrich_geojson_with_dataframe", columns |-> columns,
                           deepcopy_geo |-> deepcopy_geo, before |-> geojson]
              /\ ret' = r.ret
              /\ geojson' = r.caller
    /\ UNCHANGED <<df, provinces_map>>

NextEnrich == EnrichGeojson

SpecEnrich == InitEnrich /\ [][NextEnrich]_vars

(***************************************************************************)
(* Every table transformation called on a table the caller keeps           *)
(* (SpecFrame): df is the caller's table, or the facade's stored one.      *)
(***************************************************************************)
FrameMap == [built |-> TRUE, map |-> [k \in {1} |-> Str(<<"A">>)]]

InitFrame ==
    /\ df \in UNION {TablesOver(lay, MaxRowsWide) :
                        lay \in CleanLayouts \cup ProvLayouts \cup MapLayouts \cup AreaLayouts}
    /\ geojson = EmptyGeo
    /\ provinces_map = FrameMap
    /\ call = Idle
    /\ ret = NoRet

TableOr(r, t) == IF IsTable(r) THEN r.table ELSE t

\* df[present].copy(): indexing already builds a new object
CallSelectColumns ==
    /\ \E columns \in CleanColumns :
          /\ call' = [op |-> "select_columns", before |-> df]
          /\ ret' = Ok(select_columns(df, columns))
          /\ df' = CallerAfter(df_copy(df), df, df)
    /\ UNCHANGED <<geojson, provinces_map>>

CallFlagIntentional ==
    /\ call' = [op |-> "flag_intentional", before |-> df]
    /\ ret' = flag_intentional(df)
    /\ df' = CallerAfter(df_copy(df), df, TableOr(flag_intentional(df), df))
    /\ UNCHANGED <<geojson, provinces_map>>

CallCoerceTypes ==
    /\ call' = [op |-> "coerce_types", before |-> df]
    /\ ret' = coerce_types(df)
    /\ df' = CallerAfter(df_copy(df), df, coerce_types_out(df))
    /\ UNCHANGED <<geojson, provinces_map>>

CallAddHectareasAlias ==
    /\ call' = [op |-> "add_hectareas_alias", before |-> df]
    /\ ret' = Ok(add_hectareas_alias(df))
    /\ df' = CallerAfter(df_copy(df), df, add_hectareas_alias(df))
    /\ UNCHANGED <<geojson, provinces_map>>

\* the steps of prepare_wildfires work on the table select_columns built
CallPrepareWildfires ==
    /\ \E columns \in CleanColumns :
          /\ call' = [op |-> "prepare_wildfires", before |-> df]
          /\ ret' = prepare_wildfires(df, columns)
          /\ df' = CallerAfter(df_copy(df), df, df)
    /\ UNCHANGED <<geojson, provinces_map>>

CallMapProvinceNames ==
    /\ \E build \in FillnaNoneBuilds :
          /\ call' = [op |-> "map_province_names", before |-> df]
          /\ ret' = map_province_names(df, provinces_map.map, "idprovincia", "provincia",
                  build)
          /\ df' = CallerAfter(df_copy(df), df, map_province_names_out(df, provinces_map.map,
                  "idprovincia", "provincia", build))
    /\ UNCHANGED <<geojson, provinces_map>>

CallAddTotalResources ==
    /\ call' = [op |-> "add_total_resources", before |-> df]
    /\ ret' = add_total_resources(df)
    /\ df' = CallerAfter(df_copy(df), df, TableOr(add_total_resources(df), df))
    /\ UNCHANGED <<geojson, provinces_map>>

\* the aggregations assign nothing to out: groupby, rename and sort_values
\* build new tables
CallGroupByProvinceForMap ==
    /\ call' = [op |-> "group_by_province_for_map", before |-> df]
    /\ ret' = group_by_province_for_map(df, "provincia")
    /\ df' = CallerAfter(df_copy(df), df, df)
    /\ UNCHANGED <<geojson, provinces_map>>

CallAggregateBurnedAreaByYear ==
    /\ call' = [op |-> "aggregate_burned_area_by_year", before |-> df]
    /\ ret' = aggregate_burned_area_by_year(df, "anio", "hectareas_quemadas",
                  "perdidassuperficiales")
    /\ df' = CallerAfter(df_copy(df), df, df)
    /\ UNCHANGED <<geojson, provinces_map>>

CallAggregateResourcesByYear ==
    /\ call' = [op |-> "aggregate_resources_by_year", before |-> df]
    /\ ret' = aggregate_resources_by_year(df, "anio", RESOURCE_COLUMNS)
    /\ df' = CallerAfter(df_copy(df), df, df)
    /\ UNCHANGED <<geojson, provinces_map>>

CallTopProvinces ==
    /\ \E n \in 0..MaxN :
          \E r \in top_provinces_by_burned_area(df, n, "provincia", "hectareas_quemadas",
                      "perdidassuperficiales", FALSE) :
          /\ call' = [op |-> "top_provinces_by_burned_area", before |-> df]
          /\ ret' = r
          /\ df' = CallerAfter(df_copy(df), df, df)
    /\ UNCHANGED <<geojson, provinces_map>>

\* the facade's queries on its stored table
IncendiosForMap ==
    /\ call' = [op |-> "Incendios.for_map", before |-> df]
    /\ ret' = for_map(df)
    /\ df' = CallerAfter(df_copy(df), df, TableOr(add_total_resources(df), df))
    /\ UNCHANGED <<geojson, provinces_map>>

IncendiosBurnedAreaByYear ==
    /\ call' = [op |-> "Incendios.burned_area_by_year", before |-> df]
    /\ ret' = aggregate_burned_area_by_year(df, "anio", "hectareas_quemadas",
                  "perdidassuperficiales")
    /\ df' = CallerAfter(df_copy(df), df, df)
    /\ UNCHANGED <<geojson, provinces_map>>

IncendiosResourcesByYear ==
    /\ call' = [op |-> "Incendios.resources_by_year", before |-> df]
    /\ ret' = aggregate_resources_by_year(df, "anio", RESOURCE_COLUMNS)
    /\ df' = CallerAfter(df_copy(df), df, df)
    /\ UNCHANGED <<geojson, provinces_map>>

IncendiosTopProvinces ==
    /\ \E n \in 0..MaxN :
          \E r \in top_provinces_by_burned_area(df, n, "provincia", "hectareas_quemadas",
                      "perdidassuperficiales", FALSE) :
          /\ call' = [op |-> "Incendios.top_provinces", before |-> df]
          /\ ret' = r
          /\ df' = CallerAfter(df_copy(df), df, df)
    /\ UNCHANGED <<geojson, provinces_map>>

NextFrame ==
    \/ CallSelectColumns
    \/ CallFlagIntentional
    \/ CallCoerceTypes
    \/ CallAddHectareasAlias
    \/ CallPrepareWildfires
    \/ CallMapProvinceNames
    \/ CallAddTotalResources
    \/ CallGroupByProvinceForMap
    \/ CallAggregateBurnedAreaByYear
    \/ CallAggregateResourcesByYear
    \/ CallTopProvinces
    \/ IncendiosForMap
    \/ IncendiosBurnedAreaByYear
    \/ IncendiosResourcesByYear
    \/ IncendiosTopProvinces

SpecFrame == InitFrame /\ [][NextFrame]_vars

(***************************************************************************)
(* spain_wildfires_dashboard.py: the cached enrichment                     *)
(***************************************************************************)
\* cols of enrich_geojson_cached
CachedCols ==
    <<"provincia", "total_medios", "numeromediospersonal", "numeromediospesados",
      "numeromediosaereos">>

\* enrich_geojson_cached: grouped_map_df[cols] enriched into a copy of the base
enrich_geojson_cached(grouped_map_df, base_geojson) ==
    LET missing == ListMissing(CachedCols, SeqToSet(grouped_map_df.cols))
    IN  IF missing # <<>> THEN Raise("KeyError", "not in index", missing)
        ELSE enrich_geojson_with_dataframe(select_columns(grouped_map_df, CachedCols),
                                           base_geojson, "name", "provincia",
                                           CachedCols, TRUE).ret

(***************************************************************************)
(* Every core transformation called twice by a caller that keeps its table *)
(* and its collection, with other calls on the same objects in between     *)
(* (SpecTwice).  df and geojson are the caller's objects as the calls      *)
(* leave them; ret holds the first result (the memoized one) until the     *)
(* second call returns.                                                    *)
(***************************************************************************)
\* A call records the choices of the pandas build the process runs in, which
\* hold for both calls: what fillna(None) does (fillna) and how sort_values
\* orders ties (ties).

InitTwice ==
    /\ \/ /\ df \in UNION {TablesOver(lay, MaxRowsWide) :
                              lay \in CleanLayouts \cup ProvLayouts \cup MapLayouts
                                        \cup AreaLayouts \cup FilterLayouts
                                        \cup TextYearLayouts}
          /\ geojson = EmptyGeo
       \/ /\ df \in UNION {TablesOver(lay, MaxRows) : lay \in TopLayouts}
          /\ geojson = EmptyGeo
       \/ /\ df \in UNION {TablesOver(lay, MaxRowsWide) :
                              lay \in EnrichLayouts \cup {PreparedLayout(CachedCols)}}
          /\ geojson \in GeosOver(EnrichBags, 1)
    /\ provinces_map = FrameMap
    /\ call = Idle
    /\ ret = NoRet

\* a call starts from rest, or after the previous call was made a second time
CanStart == IF call.op = "idle" THEN TRUE ELSE call.run = 2

\* what the call described by c returns on the table t and the collection gj
Recompute(c, t, gj) ==
    CASE c.op = "prepare_wildfires" -> prepare_wildfires(t, c.columns)
      [] c.op = "map_province_names" ->
           map_province_names(t, provinces_map.map, "idprovincia", "provincia",
                              c.fillna)
      [] c.op = "group_by_province_for_map" -> group_by_province_for_map(t, "provincia")
      [] c.op = "aggregate_burned_area_by_year" ->
           aggregate_burned_area_by_year(t, "anio", "hectareas_quemadas",
                                         "perdidassuperficiales")
      [] c.op = "aggregate_resources_by_year" ->
           aggregate_resources_by_year(t, "anio", RESOURCE_COLUMNS)
      [] c.op = "top_provinces_by_burned_area" ->
           top_provinces_in_build(t, c.n, "provincia", "hectareas_quemadas",
                                  "perdidassuperficiales", FALSE, c.ties)
      [] c.op = "enrich_geojson_with_dataframe" ->
           enrich_geojson_with_dataframe(t, gj, "name", "provincia", c.columns,
                                         c.deepcopy_geo).ret
      [] c.op = "enrich_geojson_cached" -> enrich_geojson_cached(t, gj)
      [] c.op = "filter_by_year_and_intent_cached" ->
           filter_by_year_and_intent_cached(t, c.y0, c.y1, c.si, c.sni)

\* the content of the object out when the call described by c ends: only
\* map_province_names assigns columns to its copy of the table it is given
WrittenBy(c, t) ==
    IF c.op = "map_province_names"
    THEN map_province_names_out(t, provinces_map.map, "idprovincia", "provincia", c.fillna)
    ELSE t

\* the caller's collection when the call described by c ends
GeoAfter(c, t, gj) ==
    IF c.op = "enrich_geojson_with_dataframe"
    THEN enrich_geojson_with_dataframe(t, gj, "name", "provincia", c.columns,
                                       c.deepcopy_geo).caller
    ELSE gj

RunPrepareWildfires ==
    /\ CanStart
    /\ \E columns \in CleanColumns :
          /\ call' = [op |-> "prepare_wildfires", columns |-> columns,
                       run |-> 1, between |-> "none"]
          /\ ret' = prepare_wildfires(df, columns)
    /\ df' = CallerAfter(df_copy(df), df, df)
    /\ UNCHANGED <<geojson, provinces_map>>

RunMapProvinceNames ==
    /\ CanStart
    /\ \E build \in FillnaNoneBuilds :
          /\ call' = [op |-> "map_province_names", fillna |-> build, run |-> 1,
                       between |-> "none"]
          /\ ret' = map_province_names(df, provinces_map.map, "idprovincia",
                                        "provincia", build)
          /\ df' = CallerAfter(df_copy(df), df, WrittenBy(call', df))
    /\ UNCHANGED <<geojson, provinces_map>>

RunGroupByProvinceForMap ==
    /\ CanStart
    /\ call' = [op |-> "group_by_province_for_map", run |-> 1, between |-> "none"]
    /\ ret' = group_by_province_for_map(df, "provincia")
    /\ df' = CallerAfter(df_copy(df), df, df)
    /\ UNCHANGED <<geojson, provinces_map>>

RunAggregateBurnedAreaByYear ==
    /\ CanStart
    /\ call' = [op |-> "aggregate_burned_area_by_year", run |-> 1, between |-> "none"]
    /\ ret' = aggregate_burned_area_by_year(df, "anio", "hectareas_quemadas",
                                             "perdidassuperficiales")
    /\ df' = CallerAfter(df_copy(df), df, df)
    /\ UNCHANGED <<geojson, provinces_map>>

RunAggregateResourcesByYear ==
    /\ CanStart
    /\ call' = [op |-> "aggregate_resources_by_year", run |-> 1, between |-> "none"]
    /\ ret' = aggregate_resources_by_year(df, "anio", RESOURCE_COLUMNS)
    /\ df' = CallerAfter(df_copy(df), df, df)
    /\ UNCHANGED <<geojson, provinces_map>>

RunTopProvinces ==
    /\ CanStart
    /\ \E n \in 0..MaxN, ties \in TieBuilds :
          /\ call' = [op |-> "top_provinces_by_burned_area", n |-> n, ties |-> ties,
                       run |-> 1, between |-> "none"]
          /\ ret' = top_provinces_in_build(df, n, "provincia", "hectareas_quemadas",
                                            "perdidassuperficiales", FALSE, ties)
    /\ df' = CallerAfter(df_copy(df), df, df)
    /\ UNCHANGED <<geojson, provinces_map>>

\* enrich_geojson_with_dataframe(df, geojson, "name", "provincia", columns,
\* deepcopy_geo): the table is only read; with deepcopy_geo=False the caller's
\* collection is the one enriched
RunEnrichGeojson ==
    /\ CanStart
    /\ \E columns \in EnrichColumns, deepcopy_geo \in BOOLEAN :
          /\ call' = [op |-> "enrich_geojson_with_dataframe", columns |-> columns,
                       deepcopy_geo |-> deepcopy_geo, run |-> 1, between |-> "none"]
          /\ ret' = enrich_geojson_with_dataframe(df, geojson, "name", "provincia",
                                                   columns, deepcopy_geo).ret
          /\ geojson' = GeoAfter(call', df, geojson)
    /\ UNCHANGED <<df, provinces_map>>

\* the dashboard's enrich_geojson_cached(grouped_map_df, base_geojson)
RunEnrichGeojsonCached ==
    /\ CanStart
    /\ call' = [op |-> "enrich_geojson_cached", run |-> 1, between |-> "none"]
    /\ ret' = enrich_geojson_cached(df, geojson)
    /\ UNCHANGED <<df, geojson, provinces_map>>

\* the filter indexes the table (df[mask]) and assigns nothing
RunFilterCached ==
    /\ CanStart
    /\ \E a \in FilterArgs("filter_by_year_and_intent_cached") :
          /\ call' = [op |-> a.op, y0 |-> a.y0, y1 |-> a.y1, si |-> a.si, sni |-> a.sni,
                       run |-> 1, between |-> "none"]
          /\ ret' = filter_by_year_and_intent_cached(df, a.y0, a.y1, a.si, a.sni)
    /\ UNCHANGED <<df, geojson, provinces_map>>

\* Between the two calls the caller makes another call on the same table or
\* collection and drops its result.
BetweenCoerceTypes ==
    /\ call.op # "idle"
    /\ call.run = 1
    /\ call.between = "none"
    /\ call' = [call EXCEPT !.between = "coerce_types"]
    /\ df' = CallerAfter(df_copy(df), df, coerce_types_out(df))
    /\ UNCHANGED <<geojson, provinces_map, ret>>

BetweenAddTotalResources ==
    /\ call.op # "idle"
    /\ call.run = 1
    /\ call.between = "none"
    /\ call' = [call EXCEPT !.between = "add_total_resources"]
    /\ df' = CallerAfter(df_copy(df), df, TableOr(add_total_resources(df), df))
    /\ UNCHANGED <<geojson, provinces_map, ret>>

\* enrich_geojson_with_dataframe(df, geojson), deepcopy_geo left at True
BetweenEnrichGeojson ==
    /\ call.op # "idle"
    /\ call.run = 1
    /\ call.between = "none"
    /\ call' = [call EXCEPT !.between = "enrich_geojson_with_dataframe"]
    /\ geojson' = enrich_geojson_with_dataframe(df, geojson, "name", "provincia",
                                                 NoColumns, TRUE).caller
    /\ UNCHANGED <<df, provinces_map, ret>>

\* the same call once more, on the table and the collection the caller
\* holds now, in the same build; ret keeps the first result (the memoized
\* one) beside the new one
Rerun ==
    /\ call.op # "idle"
    /\ call.run = 1
    /\ call' = [call EXCEPT !.run = 2]
    /\ ret' = [kind |-> "twice", first |-> ret, second |-> Recompute(call, df, geojson)]
    /\ df' = CallerAfter(df_copy(df), df, WrittenBy(call, df))
    /\ geojson' = GeoAfter(call, df, geojson)
    /\ UNCHANGED provinces_map

NextTwice ==
    \/ RunPrepareWildfires
    \/ RunMapProvinceNames
    \/ RunGroupByProvinceForMap
    \/ RunAggregateBurnedAreaByYear
    \/ RunAggregateResourcesByYear
    \/ RunTopProvinces
    \/ RunEnrichGeojson
    \/ RunEnrichGeojsonCached
    \/ RunFilterCached
    \/ BetweenCoerceTypes
    \/ BetweenAddTotalResources
    \/ BetweenEnrichGeojson
    \/ Rerun

SpecTwice == InitTwice /\ [][NextTwice]_vars

(***************************************************************************)
(* incendios.py and spain_wildfires_dashboard.py: one run of the dashboard *)
(* script over a raw table and a geo collection (SpecDash).  call holds    *)
(* the position of the script and its local values, ret the value the last *)
(* step returned.                                                          *)
(***************************************************************************)
\* self.df["anio"].dropna().astype(int).unique(), as a set of years
years(t) ==
    {python_int(t.rows[i]["anio"]).v :
        i \in {j \in 1..NRows(t) : ~IsNa(t.rows[j]["anio"])}}

\* astype(int) raises on a year that is infinite or a text that is no
\* integer literal
YearsFail(t) ==
    /\ HasCol(t, "anio")
    /\ \E i \in 1..NRows(t) : ~IsNa(t.rows[i]["anio"]) /\ ~python_int(t.rows[i]["anio"]).ok

MinOf(S) == CHOOSE x \in S : \A y \in S : x <= y

MaxOf(S) == CHOOSE x \in S : \A y \in S : x >= y

\* Incendios.__init__, step 4: years[0] and years[-1] of the sorted years,
\* None for a table without "anio", without rows or without a year
min_year(t) ==
    IF HasCol(t, "anio") /\ NRows(t) > 0 /\ years(t) # {}
    THEN Int10(MinOf(years(t))) ELSE Null

max_year(t) ==
    IF HasCol(t, "anio") /\ NRows(t) > 0 /\ years(t) # {}
    THEN Int10(MaxOf(years(t))) ELSE Null

\* Incendios.__init__, steps 2 and 3: the prepared table with its provinces
\* named
IncendiosTable(df_raw, gj, build) ==
    LET df_prepared == prepare_wildfires(df_raw, NoColumns)
        built       == build_provinces_map(gj, "cod_prov", "name")
    IN  IF IsError(df_prepared) THEN df_prepared
        ELSE IF IsError(built) THEN built
        ELSE map_province_names(df_prepared.table, built.map, "idprovincia",
                                "provincia", build)

\* Incendios.__init__: the stored table, or the error the first failing step
\* raises.  Step 4 casts the years: a column of numbers that holds an
\* infinite one refuses the cast with a ValueError; a column of objects (one
\* that holds a text or a boolean beside other values) is cast cell by cell
\* with int(), and the first cell int() refuses raises its exception
YearsStep(r) ==
    IF IsTable(r) /\ YearsFail(r.table)
    THEN LET t    == r.table
             objs == \E i \in 1..NRows(t) : t.rows[i]["anio"].k \in {"str", "bool"}
             bad  == CHOOSE i \in 1..NRows(t) :
                        /\ ~IsNa(t.rows[i]["anio"]) /\ ~python_int(t.rows[i]["anio"]).ok
                        /\ \A j \in 1..(i - 1) :
                              IsNa(t.rows[j]["anio"]) \/ python_int(t.rows[j]["anio"]).ok
         IN  Raise(IF objs THEN python_int(t.rows[bad]["anio"]).exc ELSE "ValueError",
                   "astype(int)", <<"anio">>)
    ELSE r

Incendios(df_raw, gj, build) == YearsStep(IncendiosTable(df_raw, gj, build))

\* a default end of the range that is not held below max_year
default_end_unclamped(lo, hi) == lo + 10

\* default_end = min(ds.min_year + 10, ds.max_year)
default_end(lo, hi) == IF lo + 10 <= hi THEN lo + 10 ELSE hi

DashColumns ==
    <<"anio", "idprovincia", "provincia", "numeromediospersonal",
      "numeromediospesados", "numeromediosaereos", "idcausa">>

\* the raw rows over cols: every row uses 1 person, 2 heavy and 0 aerial
\* resources, and has the raw province name "Z" where the table has that column
DashRows(cols, anios, ids, causas) ==
    {[c \in SeqToSet(cols) |->
        CASE c = "anio" -> a
          [] c = "idprovincia" -> i
          [] c = "provincia" -> Str(<<"Z">>)
          [] c = "numeromediospersonal" -> Int10(1)
          [] c = "numeromediospesados" -> Int10(2)
          [] c = "numeromediosaereos" -> Int10(0)
          [] c = "idcausa" -> k] :
        a \in anios, i \in ids, k \in causas}

DashTables(cols, anios, ids, causas) ==
    {[cols |-> cols, rows |-> rs] :
        rs \in SeqsUpTo(DashRows(cols, anios, ids, causas), MaxRows)}

\* raw tables with and without years, with one and with two provinces, with
\* and without a raw province name, and with years read as texts
DashRaw ==
    DashTables(DashColumns, {Int10(2009), Y2020, Y2021, NaN}, {Int10(1)}, {Int10(450)})
      \cup DashTables(Tail(DashColumns), {NaN}, {Int10(1)}, {Int10(450)})
      \cup DashTables(DashColumns, {Y2020, Y2021}, {Int10(1), Int10(2)},
                      {Int10(450), Int10(100)})
      \cup DashTables(SelectSeq(DashColumns, LAMBDA c : c # "provincia"), {Y2020},
                      {Int10(1), Int10(2)}, {Int10(450), Int10(100)})
      \cup DashTables(DashColumns,
                      {Str(<<"2", "0", "2", "0">>),
                       Str(<<"\\xa0", "\\u0662", "_", "0", "2", "1">>)},
                      {Int10(1)}, {Int10(450)})

\* the provinces of the collections: A (code 1), B (code 2) and a province
\* with code 2 whose name is null
ProvinceA == Feature([cod_prov |-> Int10(1), name |-> Str(<<"A">>)], 1)

ProvinceB == Feature([cod_prov |-> Int10(2), name |-> Str(<<"B">>)], 2)

ProvinceUnnamed == Feature([cod_prov |-> Int10(2), name |-> Null], 2)

DashGeos ==
    {[features |-> fs] :
        fs \in {<<ProvinceA>>, <<ProvinceA, ProvinceB>>, <<ProvinceB, ProvinceA>>,
                <<ProvinceA, ProvinceUnnamed>>}}

InitDash ==
    /\ df \in DashRaw
    /\ geojson \in DashGeos
    /\ provinces_map = NotBuilt
    /\ call = Idle
    /\ ret = NoRet

\* ds = load_dataset(CSV_PATH, GEOJSON_PATH); df = ds.dataframe()
LoadDataset ==
    /\ call.op = "idle"
    /\ \E build \in FillnaNoneBuilds :
          LET ds == Incendios(df, geojson, build)
          IN  IF IsError(ds)
              THEN /\ call' = [op |-> "raised", at |-> "load_dataset"]
                   /\ ret' = ds
                   /\ UNCHANGED <<df, provinces_map>>
              ELSE /\ call' = [op |-> "loaded", min_year |-> min_year(ds.table),
                               max_year |-> max_year(ds.table)]
                   /\ ret' = NoRet
                   /\ df' = ds.table
                   /\ provinces_map' =
                         [built |-> TRUE,
                          map |-> build_provinces_map(geojson, "cod_prov", "name").map]
    /\ UNCHANGED geojson

\* the values the user can leave the slider at: any range of whole years
\* (step=1) between min_value and max_value, the default among them
SliderRanges(lo, hi) == {r \in (lo..hi) \X (lo..hi) : r[1] <= r[2]}

\* lines 156-167: the year slider, or the warning and st.stop()
YearSlider ==
    /\ call.op = "loaded"
    /\ IF ~IsNa(call.min_year) /\ ~IsNa(call.max_year)
       THEN LET lo == call.min_year.n \div 10
                hi == call.max_year.n \div 10
            IN  \E year_range \in SliderRanges(lo, hi) :
                   call' = [op |-> "year_range", min_year |-> call.min_year,
                            max_year |-> call.max_year,
                            value |-> <<lo, default_end(lo, hi)>>,
                            year_range |-> year_range]
       ELSE call' = [op |-> "stopped", min_year |-> call.min_year,
                     max_year |-> call.max_year,
                     warning |-> "No se detectaron anos validos en el dataset."]
    /\ UNCHANGED <<df, geojson, provinces_map, ret>>

\* lines 170-175: the two checkboxes, and the warning and st.stop() when
\* both are off
IntentCheckboxes ==
    /\ call.op = "year_range"
    /\ \E show_intentional \in BOOLEAN, show_non_intentional \in BOOLEAN :
          IF ~show_intentional /\ ~show_non_intentional
          THEN call' = [op |-> "stopped", min_year |-> call.min_year,
                        max_year |-> call.max_year,
                        show_intentional |-> show_intentional,
                        show_non_intentional |-> show_non_intentional,
                        warning |-> "Selecciona al menos un tipo de causalidad"]
          ELSE call' = [op |-> "checked", min_year |-> call.min_year,
                        max_year |-> call.max_year, value |-> call.value,
                        year_range |-> call.year_range,
                        show_intentional |-> show_intentional,
                        show_non_intentional |-> show_non_intentional]
    /\ UNCHANGED <<df, geojson, provinces_map, ret>>

\* line 177: df_filt = filter_by_year_and_intent_cached(df, year_range, ...)
FilterRun ==
    /\ call.op = "checked"
    /\ ret' = filter_by_year_and_intent_cached(df, call.year_range[1], call.year_range[2],
                                                call.show_intentional,
                                                call.show_non_intentional)
    /\ call' = IF IsError(ret') THEN [op |-> "raised", at |-> "filter"]
               ELSE [op |-> "filtered", min_year |-> call.min_year,
                     max_year |-> call.max_year, value |-> call.value,
                     year_range |-> call.year_range,
                     show_intentional |-> call.show_intentional,
                     show_non_intentional |-> call.show_non_intentional,
                     df_filt |-> ret'.table]
    /\ UNCHANGED <<df, geojson, provinces_map>>

\* line 239: df_map = map_aggregation_cached(df_filt)
MapAggregationRun ==
    /\ call.op = "filtered"
    /\ ret' = map_aggregation_cached(call.df_filt)
    /\ call' = IF IsError(ret') THEN [op |-> "raised", at |-> "map_aggregation"]
               ELSE [call EXCEPT !.op = "aggregated"]
    /\ UNCHANGED <<df, geojson, provinces_map>>

\* lines 240 and 188: gj = enrich_geojson_cached(df_map, ds.geojson); ret
\* still holds df_map
CreateChoropleth ==
    /\ call.op = "aggregated"
    /\ ret' = enrich_geojson_cached(ret.table, geojson)
    /\ call' = IF IsError(ret') THEN [op |-> "raised", at |-> "create_choropleth"]
               ELSE [call EXCEPT !.op = "enriched"]
    /\ UNCHANGED <<df, geojson, provinces_map>>

\* line 244: the yearly chart drawn from df_filt
RenderCharts ==
    /\ call.op = "enriched"
    /\ ret' = line_hectares_by_year(call.df_filt, "anio", "hectareas_quemadas",
                                     "perdidassuperficiales")
    /\ call' = IF IsError(ret') THEN [op |-> "raised", at |-> "line_hectares_by_year"]
               ELSE [call EXCEPT !.op = "rendered"]
    /\ UNCHANGED <<df, geojson, provinces_map>>

\* the user moves a widget: the script runs again from the top, and
\* load_dataset returns the dataset it has cached
ScriptRerun ==
    /\ call.op \in {"stopped", "rendered"}
    /\ call' = [op |-> "loaded", min_year |-> call.min_year, max_year |-> call.max_year]
    /\ ret' = NoRet
    /\ UNCHANGED <<df, geojson, provinces_map>>

NextDash ==
    \/ LoadDataset
    \/ YearSlider
    \/ IntentCheckboxes
    \/ FilterRun
    \/ MapAggregationRun
    \/ CreateChoropleth
    \/ RenderCharts
    \/ ScriptRerun

SpecDash == InitDash /\ [][NextDash]_vars

(***************************************************************************)
(* Claims about the cleaning functions                                     *)
(***************************************************************************)
InCauseRange(v) == v.k = "num" /\ v.n >= 4000 /\ v.n <= 4990

\* C2: after flag_intentional and after prepare_wildfires, every row's
\* intencionado is the boolean "idcausa is present and 400 <= idcausa <= 499";
\* without an idcausa column it is False (never missing) in every row.
C2_IntentionalFlag ==
    (call.op \in {"flag_intentional", "prepare_wildfires"} /\ IsTable(ret)) =>
        LET t == ret.table
            present == HasCol(t, "idcausa")
        IN  /\ HasCol(t, "intencionado")
            /\ NRows(t) = NRows(df)
            /\ call.op = "flag_intentional" => (present <=> HasCol(df, "idcausa"))
            /\ \A i \in 1..NRows(t) :
                  /\ present => t.rows[i]["idcausa"] = df.rows[i]["idcausa"]
                  /\ t.rows[i]["intencionado"]
                        = Bool(present /\ InCauseRange(t.rows[i]["idcausa"]))

C2_Witness ==
    /\ call.op = "prepare_wildfires"
    /\ IsTable(ret)
    /\ HasCol(ret.table, "idcausa")
    /\ \E i, j \in 1..NRows(ret.table) :
          /\ df.rows[i]["idcausa"] = Int10(499)
          /\ ret.table.rows[i]["intencionado"] = Bool(TRUE)
          /\ df.rows[j]["idcausa"] = NaN
          /\ ret.table.rows[j]["intencionado"] = Bool(FALSE)

\* y is x cut to a whole number toward zero (both in tenths)
TruncatedOf(x, y) ==
    /\ y % 10 = 0
    /\ x >= 0 => (y <= x /\ x - y < 10)
    /\ x < 0 => (y >= x /\ y - x < 10)

IdColumns == {"idpeligro", "idprovincia"}

ResourceSet == {"numeromediospersonal", "numeromediospesados", "numeromediosaereos"}

\* C7: coerce_types turns every idpeligro / idprovincia cell into a whole
\* number: the parsed number cut toward zero ("7" gives 7), or -1 when the
\* cell is missing or does not parse ("abc"); every resource cell becomes its
\* parsed number, or 0 when missing or unparsable; none of them stays missing.
C7_CoerceTypes ==
    (call.op = "coerce_types") =>
        LET t == ret.table
        IN  /\ IsTable(ret)
            /\ t.cols = df.cols
            /\ NRows(t) = NRows(df)
            /\ \A i \in 1..NRows(t) :
                  /\ \A c \in IdColumns \cap SeqToSet(df.cols) :
                        LET a == df.rows[i][c]
                            b == t.rows[i][c]
                            p == IF a.k = "str" THEN ParseText(a.s) ELSE a
                        IN  /\ b.k = "num"
                            /\ b.n % 10 = 0
                            /\ a = Str(<<"7">>) => b = Int10(7)
                            /\ a = Str(<<"a", "b", "c">>) => b = Int10(-1)
                            /\ p.k = "nan" => b = Int10(-1)
                            /\ p.k = "num" => TruncatedOf(p.n, b.n)
                  /\ \A c \in ResourceSet \cap SeqToSet(df.cols) :
                        LET a == df.rows[i][c]
                            b == t.rows[i][c]
                            p == IF a.k = "str" THEN ParseText(a.s) ELSE a
                        IN  /\ b.k \in {"num", "inf"}
                            /\ a = Str(<<"4">>) => b = Int10(4)
                            /\ p.k = "nan" => b = Int10(0)
                            /\ p.k \in {"num", "inf"} => b = p

\* the number a raw cell parses to, NaN when it is missing or does not parse
ParsedRaw(v) ==
    CASE v.k = "str" -> ParseText(v.s)
      [] v.k \in {"num", "inf"} -> v
      [] OTHER -> NaN

\* the columns prepare_wildfires is asked for, and those of them df has
RequestedColumns == IF call.columns = NoColumns THEN DEFAULT_COLUMNS ELSE call.columns

KeptColumns == SelectSeq(RequestedColumns, LAMBDA c : c \in SeqToSet(df.cols))

\* C11: whatever text or missing values the raw columns hold,
\* prepare_wildfires raises no error and returns a table where an id that
\* does not parse is -1, a resource that does not parse is 0, a burned-area
\* source that does not parse is missing, and a cause code that does not
\* parse has a false intent flag.
C11_PrepareNeverFails ==
    (call.op = "prepare_wildfires") =>
        /\ IsTable(ret)
        /\ \A i \in 1..NRows(df) :
              \A c \in SeqToSet(KeptColumns) :
                  ParsedRaw(df.rows[i][c]) = NaN =>
                      /\ c \in IdColumns => ret.table.rows[i][c] = Int10(-1)
                      /\ c \in ResourceSet => ret.table.rows[i][c] = Int10(0)
                      /\ c = "perdidassuperficiales" => ret.table.rows[i][c] = NaN
                      /\ c = "idcausa" => ret.table.rows[i]["intencionado"] = Bool(FALSE)

DerivedColumns == <<"intencionado", "hectareas_quemadas">>

\* C15: the table prepare_wildfires returns has exactly the requested
\* columns (the default ones when none are given) that the raw table has, in
\* the requested order, followed by intencionado and hectareas_quemadas; no
\* error is raised when none of the requested columns is present; a raw
\* column that was not requested never appears.
C15_PreparedColumns ==
    (call.op = "prepare_wildfires") =>
        /\ KeptColumns = <<>> => IsTable(ret)
        /\ IsTable(ret) =>
              /\ ret.table.cols = KeptColumns \o DerivedColumns
              /\ NRows(ret.table) = NRows(df)
              /\ \A i \in 1..NRows(df) :
                    DOMAIN ret.table.rows[i] = SeqToSet(KeptColumns \o DerivedColumns)
              /\ \A c \in SeqToSet(df.cols) \ SeqToSet(RequestedColumns) :
                    ~HasCol(ret.table, c)

C15_Witness ==
    /\ call.op = "prepare_wildfires"
    /\ call.columns = NoColumns
    /\ IsTable(ret)
    /\ NRows(df) > 0
    /\ df.cols = <<"codigo", "perdidassuperficiales", "numeromediospesados">>
    /\ ret.table.cols = <<"numeromediospesados", "perdidassuperficiales",
                          "intencionado", "hectareas_quemadas">>

C15_WitnessNonePresent ==
    /\ call.op = "prepare_wildfires"
    /\ call.columns = <<"idpeligro">>
    /\ df.cols = <<"idcausa">>
    /\ NRows(df) = 2
    /\ IsTable(ret)
    /\ ret.table.cols = DerivedColumns

\* C18: in every row of a table returned by prepare_wildfires each resource
\* value is a number >= 0, hectareas_quemadas is a number >= 0 (0 where the
\* source is missing or absent), and perdidassuperficiales keeps its missing
\* values.
C18_PreparedRecord ==
    (call.op = "prepare_wildfires" /\ IsTable(ret)) =>
        \A i \in 1..NRows(ret.table) :
            /\ \A c \in ResourceSet \cap SeqToSet(ret.table.cols) :
                  ret.table.rows[i][c].k = "num" /\ ret.table.rows[i][c].n >= 0
            /\ ret.table.rows[i]["hectareas_quemadas"].k = "num"
            /\ ret.table.rows[i]["hectareas_quemadas"].n >= 0
            /\ ~HasCol(ret.table, "perdidassuperficiales") =>
                  ret.table.rows[i]["hectareas_quemadas"] = Int10(0)
            /\ HasCol(ret.table, "perdidassuperficiales") =>
                  /\ ParsedRaw(df.rows[i]["perdidassuperficiales"]) = NaN =>
                        /\ ret.table.rows[i]["perdidassuperficiales"] = NaN
                        /\ ret.table.rows[i]["hectareas_quemadas"] = Int10(0)

(***************************************************************************)
(* Claims about the aggregations                                           *)
(***************************************************************************)
\* the sum of column c of table t over the row positions I, a missing cell
\* counting as 0
RECURSIVE SumOver(_, _, _)
SumOver(t, c, I) ==
    IF I = {} THEN 0
    ELSE LET i == CHOOSE x \in I : TRUE
         IN  (IF t.rows[i][c].k = "num" THEN t.rows[i][c].n ELSE 0)
             + SumOver(t, c, I \ {i})

RowsWith(t, c, v) == {i \in 1..NRows(t) : t.rows[i][c] = v}

PresentValues(t, c) == {t.rows[i][c] : i \in 1..NRows(t)} \ {NaN}

AbsentResources == ResourceSet \ SeqToSet(df.cols)

\* C1: on a table lacking resource columns, add_total_resources,
\* group_by_province_for_map and aggregate_resources_by_year raise a
\* missing-column error that lists exactly the absent resource columns, each
\* once, and return no aggregate; also when the table has total_medios.
C1_MissingResourceColumns ==
    (/\ call.op \in {"add_total_resources", "group_by_province_for_map",
                      "aggregate_resources_by_year"}
     /\ AbsentResources # {}) =>
        /\ IsError(ret)
        /\ ret.exc = "KeyError"
        /\ SeqToSet(ret.names) = AbsentResources
        /\ Len(ret.names) = Cardinality(AbsentResources)

C1_Witness ==
    /\ call.op = "group_by_province_for_map"
    /\ HasCol(df, "total_medios")
    /\ HasCol(df, "provincia")
    /\ NRows(df) > 0
    /\ AbsentResources = {"numeromediospesados", "numeromediosaereos"}
    /\ IsError(ret)
    /\ ret.names = <<"numeromediospesados", "numeromediosaereos">>

\* C6: aggregate_resources_by_year returns exactly one row per distinct year
\* of the input, and in it every resource column is the sum of that column
\* over the input rows of that year.
C6_ResourcesByYear ==
    (/\ call.op = "aggregate_resources_by_year"
     /\ HasCol(df, "anio")
     /\ AbsentResources = {}) =>
        /\ IsTable(ret)
        /\ \A y \in PresentValues(df, "anio") :
              Cardinality(RowsWith(ret.table, "anio", y)) = 1
        /\ \A g \in 1..NRows(ret.table) :
              /\ ret.table.rows[g]["anio"] \in PresentValues(df, "anio")
              /\ \A c \in ResourceSet :
                    ret.table.rows[g][c]
                      = Num(SumOver(df, c, RowsWith(df, "anio", ret.table.rows[g]["anio"])))

C6_Witness ==
    /\ call.op = "aggregate_resources_by_year"
    /\ IsTable(ret)
    /\ NRows(df) = 2
    /\ df.rows[1]["anio"] = Y2020
    /\ df.rows[2]["anio"] = Y2020
    /\ df.rows[1]["numeromediospersonal"] = Int10(1)
    /\ df.rows[2]["numeromediospersonal"] = Int10(2)
    /\ df.rows[1]["numeromediospesados"] = NaN
    /\ NRows(ret.table) = 1
    /\ ret.table.rows[1]["numeromediospersonal"] = Int10(3)

\* the total of row i of df: personnel + heavy + air, nothing when one of
\* them is missing
RowTotal(i) ==
    LET p == df.rows[i]["numeromediospersonal"]
        h == df.rows[i]["numeromediospesados"]
        a == df.rows[i]["numeromediosaereos"]
    IN  IF p.k = "num" /\ h.k = "num" /\ a.k = "num" THEN p.n + h.n + a.n ELSE 0

RECURSIVE RowTotalsOver(_)
RowTotalsOver(I) ==
    IF I = {} THEN 0
    ELSE LET i == CHOOSE x \in I : TRUE
         IN  RowTotal(i) + RowTotalsOver(I \ {i})

\* C19: group_by_province_for_map returns exactly one row per distinct
\* province of the input; each resource column and total_medios is the sum
\* of that column over the input rows of the province, total_medios being
\* personnel + heavy + air of each row when the input has no such column.
C19_ProvinceAggregate ==
    (/\ call.op = "group_by_province_for_map"
     /\ HasCol(df, "provincia")
     /\ AbsentResources = {}) =>
        /\ IsTable(ret)
        /\ \A v \in PresentValues(df, "provincia") :
              Cardinality(RowsWith(ret.table, "provincia", v)) = 1
        /\ \A g \in 1..NRows(ret.table) :
              LET v == ret.table.rows[g]["provincia"]
                  I == RowsWith(df, "provincia", v)
              IN  /\ v \in PresentValues(df, "provincia")
                  /\ \A c \in ResourceSet :
                        ret.table.rows[g][c] = Num(SumOver(df, c, I))
                  /\ ret.table.rows[g]["total_medios"] =
                        (IF HasCol(df, "total_medios")
                         THEN Num(SumOver(df, "total_medios", I))
                         ELSE Num(RowTotalsOver(I)))

C19_Witness ==
    /\ call.op = "group_by_province_for_map"
    /\ df.cols = <<"provincia">> \o RESOURCE_COLUMNS
    /\ NRows(df) = 2
    /\ df.rows[1]["provincia"] = Str(<<"A">>)
    /\ df.rows[2]["provincia"] = Str(<<"A">>)
    /\ df.rows[1]["numeromediospesados"] = NaN
    /\ df.rows[2]["numeromediospesados"] = Int10(0)
    /\ IsTable(ret)
    /\ NRows(ret.table) = 1
    /\ ret.table.rows[1]["total_medios"]
          = AddCells(df.rows[2]["numeromediospersonal"], df.rows[2]["numeromediosaereos"])

\* C20: in every row of the map aggregate of Incendios.for_map and of
\* map_aggregation_cached, total_medios = personnel + heavy + air of that
\* row, also when the table came with a total_medios column of its own.
C20_TotalIsSumOfParts ==
    (call.op \in {"for_map", "map_aggregation_cached"} /\ IsTable(ret)) =>
        \A g \in 1..NRows(ret.table) :
            /\ ret.table.rows[g]["total_medios"].k \in {"num", "inf"}
            /\ ret.table.rows[g]["total_medios"] =
                  AddCells(AddCells(ret.table.rows[g]["numeromediospersonal"],
                                    ret.table.rows[g]["numeromediospesados"]),
                           ret.table.rows[g]["numeromediosaereos"])

(***************************************************************************)
(* Claims about top_provinces_by_burned_area                               *)
(***************************************************************************)
\* the column the burned area is read from
BurnedColumn(t) ==
    IF "hectareas_quemadas" \in SeqToSet(t.cols) THEN "hectareas_quemadas"
    ELSE "perdidassuperficiales"

BurnedOf(t, prov) == SumOver(t, BurnedColumn(t), RowsWith(t, "provincia", prov))

Min2(a, b) == IF a < b THEN a ELSE b

\* C5: with ascending=false, top_provinces_by_burned_area(table, n) returns
\* min(n, number of distinct provinces) rows, one per province, each with the
\* sum of the province's burned area, in non-increasing order of the sum, and
\* no province left out has a larger sum than a province returned.
C5_TopProvinces ==
    (/\ call.op = "top_provinces_by_burned_area"
     /\ ~call.ascending
     /\ IsTable(ret)) =>
        LET out      == ret.table
            provs    == PresentValues(df, "provincia")
            returned == {out.rows[g]["provincia"] : g \in 1..NRows(out)}
        IN  /\ NRows(out) = Min2(call.n, Cardinality(provs))
            /\ returned \subseteq provs
            /\ Cardinality(returned) = NRows(out)
            /\ \A g \in 1..NRows(out) :
                  out.rows[g]["hectareas_quemadas"]
                    = Num(BurnedOf(df, out.rows[g]["provincia"]))
            /\ \A g \in 1..(NRows(out) - 1) :
                  out.rows[g]["hectareas_quemadas"].n
                    >= out.rows[g + 1]["hectareas_quemadas"].n
            /\ \A a \in provs \ returned : \A b \in returned :
                  BurnedOf(df, a) <= BurnedOf(df, b)

C5_Witness ==
    /\ call.op = "top_provinces_by_burned_area"
    /\ ~call.ascending
    /\ call.n = 2
    /\ IsTable(ret)
    /\ Cardinality(PresentValues(df, "provincia")) = 3
    /\ df.rows[1]["provincia"] = Str(<<"A">>)
    /\ df.rows[1]["hectareas_quemadas"] = NaN
    /\ NRows(ret.table) = 2
    /\ ret.table.rows[1]["hectareas_quemadas"] = Int10(2)
    /\ ret.table.rows[2]["hectareas_quemadas"] = Int10(1)
    /\ Str(<<"A">>) \notin {ret.table.rows[g]["provincia"] : g \in 1..2}

(***************************************************************************)
(* Claims about the dashboard filter                                       *)
(***************************************************************************)
FilterResults ==
    {"filter_by_year_and_intent", "filter_by_year_and_intent_cached",
     "year_then_intent", "intent_then_year"}

\* row r lies in the year range and its flag is one of the enabled kinds
Wanted(r, a) ==
    /\ r["anio"].k = "num"
    /\ 10 * a.y0 <= r["anio"].n
    /\ r["anio"].n <= 10 * a.y1
    /\ \/ a.si /\ r["intencionado"] = Bool(TRUE)
       \/ a.sni /\ r["intencionado"] = Bool(FALSE)

WantedRows(a) == SelectSeq(df.rows, LAMBDA r : Wanted(r, a))

\* C8: for every table, every range and every setting of the two flags with
\* at least one flag enabled, filtering by year and then by intent, by intent
\* and then by year, and the dashboard's filter each select the rows in the
\* year range whose flag is an enabled kind.  (With both flags disabled the
\* filter's else branch returns the non-intentional rows of the range.)
C8_FilterConjunction ==
    (call.op \in FilterResults /\ (call.si \/ call.sni)) =>
        /\ IsTable(ret)
        /\ ret.table.cols = df.cols
        /\ ret.table.rows = WantedRows(call)

(***************************************************************************)
(* Claims about the burned-area column                                     *)
(***************************************************************************)
BurnedOps ==
    {"aggregate_burned_area_by_year", "top_provinces_by_burned_area",
     "line_hectares_by_year", "horizontal_top_provinces"}

\* the column an operation groups by, and the name it gives the sums
KeyOf(op) ==
    IF op \in {"aggregate_burned_area_by_year", "line_hectares_by_year"}
    THEN "anio" ELSE "provincia"

SumNameOf(op) ==
    IF op = "line_hectares_by_year" THEN BurnedColumn(df) ELSE "hectareas_quemadas"

HasBurnedColumn ==
    HasCol(df, "hectareas_quemadas") \/ HasCol(df, "perdidassuperficiales")

\* the error of the hard check on the burned-area column
BurnedColumnError(r) ==
    /\ IsError(r)
    /\ r.exc = "KeyError"
    /\ r.names = <<"hectareas_quemadas", "perdidassuperficiales">>

\* C12: the burned-area operations sum hectareas_quemadas when the table
\* has it, else perdidassuperficiales; they fail with the missing
\* burned-area column error exactly when the table has neither; the
\* aggregate operations name the summed column hectareas_quemadas.
C12_BurnedColumn ==
    (call.op \in BurnedOps) =>
        /\ BurnedColumnError(ret) <=> ~HasBurnedColumn
        /\ (HasBurnedColumn /\ HasCol(df, KeyOf(call.op))) => IsTable(ret)
        /\ IsTable(ret) =>
              /\ ret.table.cols = <<KeyOf(call.op), SumNameOf(call.op)>>
              /\ \A g \in 1..NRows(ret.table) :
                    ret.table.rows[g][SumNameOf(call.op)]
                      = Num(SumOver(df, BurnedColumn(df),
                                    RowsWith(df, KeyOf(call.op),
                                             ret.table.rows[g][KeyOf(call.op)])))

C12_Witness ==
    /\ call.op = "aggregate_burned_area_by_year"
    /\ df.cols = <<"anio", "provincia", "perdidassuperficiales">>
    /\ NRows(df) = 2
    /\ df.rows[1]["anio"] = Y2020
    /\ df.rows[2]["anio"] = Y2020
    /\ df.rows[1]["perdidassuperficiales"] = Int10(2)
    /\ df.rows[2]["perdidassuperficiales"] = Int10(2)
    /\ IsTable(ret)
    /\ ret.table.cols = <<"anio", "hectareas_quemadas">>
    /\ ret.table.rows = <<[anio |-> Y2020, hectareas_quemadas |-> Int10(4)]>>

C12_WitnessNeither ==
    /\ call.op = "horizontal_top_provinces"
    /\ df.cols = <<"anio", "provincia">>
    /\ NRows(df) = 2
    /\ BurnedColumnError(ret)

(***************************************************************************)
(* Claims about the tables a transformation is given                       *)
(***************************************************************************)
\* C13: no table transformation changes its input: whether the call
\* returned or raised, the caller's table (the facade's stored table for
\* the Incendios queries) has the columns and the values it had before.
C13_InputUntouched ==
    (call.op # "idle") =>
        /\ df.cols = call.before.cols
        /\ df.rows = call.before.rows

\* no step ever changes the table, so neither does a sequence of calls
C13_NoStepChangesInput == [][df' = df]_vars

C13_Witness ==
    /\ call.op = "map_province_names"
    /\ NRows(df) > 0
    /\ df.cols = <<"idprovincia", "provincia">>
    /\ df.rows[1]["idprovincia"] = Int10(1)
    /\ df.rows[1]["provincia"] = Str(<<"Z">>)
    /\ IsTable(ret)
    /\ ret.table.rows[1]["provincia"] = Str(<<"A">>)
    /\ df = call.before

C13_WitnessRaised ==
    /\ call.op = "map_province_names"
    /\ df.cols = <<"idprovincia">>
    /\ IsError(ret)
    /\ ret.exc = "ValueError"
    /\ df = call.before

C14_WitnessInPlace ==
    /\ ret.kind = "twice"
    /\ call.op = "enrich_geojson_with_dataframe"
    /\ ~call.deepcopy_geo
    /\ call.columns = <<"total_medios">>
    /\ ret.first.kind = "geo"
    /\ Len(ret.first.geo.features) = 1
    /\ ret.first.geo.features[1].props = [name |-> Str(<<"A">>), total_medios |-> Int10(7)]
    /\ geojson = ret.first.geo
    /\ ret.second = ret.first

(***************************************************************************)
(* Claims about province resolution                                        *)
(***************************************************************************)
\* the number a cell denotes, a text through its decimal literal
NumberOf(v) == IF v.k = "str" THEN ParseText(v.s) ELSE v

SameCode(a, b) ==
    /\ NumberOf(a).k = "num"
    /\ NumberOf(a).n % 10 = 0
    /\ NumberOf(a) = NumberOf(b)

\* the features that carry both keys and whose code is the code of cell v
FeaturesWithCode(v) ==
    {j \in 1..Len(geojson.features) :
        /\ {"cod_prov", "name"} \subseteq DOMAIN PropsOf(geojson.features[j])
        /\ SameCode(v, geojson.features[j].props["cod_prov"])}

SameName(a, b) == a = b \/ (IsNa(a) /\ IsNa(b))

\* C3: round trip.  When every idprovincia of the table is the code of a
\* feature carrying both keys, build_provinces_map followed by
\* map_province_names gives every row the name of a feature with its code,
\* whatever name the row had before.
C3_RoundTrip ==
    (/\ call.op = "map_province_names"
     /\ call.built
     /\ HasCol(df, "idprovincia")
     /\ \A i \in 1..NRows(df) : FeaturesWithCode(df.rows[i]["idprovincia"]) # {}) =>
        /\ IsTable(ret)
        /\ \A i \in 1..NRows(df) :
              \E j \in FeaturesWithCode(df.rows[i]["idprovincia"]) :
                  SameName(ret.table.rows[i]["provincia"],
                           geojson.features[j].props["name"])

\* the integer the claim gives a row's id: the parsed number cut toward
\* zero, -1 when the cell is missing or does not parse
ClaimedId(v) ==
    IF NumberOf(v).k = "num"
    THEN (IF NumberOf(v).n >= 0 THEN NumberOf(v).n \div 10
          ELSE -((-NumberOf(v).n) \div 10))
    ELSE -1

\* C10: map_province_names never raises; without the id column it returns
\* the table as it was; otherwise every id becomes its parsed number cut to
\* an integer (-1 on failure), a row whose id has an entry gets the entry's
\* name and a row whose id has none keeps the name it had.
C10_KeepPrevious ==
    (call.op = "map_province_names") =>
        /\ IsTable(ret)
        /\ ~HasCol(df, "idprovincia") => ret.table = df
        /\ HasCol(df, "idprovincia") =>
              \A i \in 1..NRows(df) :
                  LET id == ClaimedId(df.rows[i]["idprovincia"])
                  IN  /\ ret.table.rows[i]["idprovincia"] = Int10(id)
                      /\ id \in DOMAIN provinces_map.map =>
                            ret.table.rows[i]["provincia"] = provinces_map.map[id]
                      /\ (id \notin DOMAIN provinces_map.map /\ HasCol(df, "provincia")) =>
                            ret.table.rows[i]["provincia"] = df.rows[i]["provincia"]

\* C16: on a table with the id column and no name column,
\* map_province_names raises no error and returns a name column holding the
\* looked-up name where the id has an entry and a missing name elsewhere.
C16_NoNameColumn ==
    (/\ call.op = "map_province_names"
     /\ HasCol(df, "idprovincia")
     /\ ~HasCol(df, "provincia")) =>
        /\ IsTable(ret)
        /\ HasCol(ret.table, "provincia")
        /\ \A i \in 1..NRows(df) :
              LET id == ClaimedId(df.rows[i]["idprovincia"])
              IN  IF id \in DOMAIN provinces_map.map
                  THEN ret.table.rows[i]["provincia"] = provinces_map.map[id]
                  ELSE IsNa(ret.table.rows[i]["provincia"])

\* the features that carry both keys, and the integer of a feature's code
FeaturesWithBoth ==
    {j \in 1..Len(geojson.features) :
        {"cod_prov", "name"} \subseteq DOMAIN PropsOf(geojson.features[j])}

CodeOf(j) == python_int(geojson.features[j].props["cod_prov"]).v

LastWithCode(k) ==
    CHOOSE j \in FeaturesWithBoth :
        /\ CodeOf(j) = k
        /\ \A q \in FeaturesWithBoth : CodeOf(q) = k => q <= j

\* C17: build_provinces_map returns a mapping whose keys are the integer
\* codes of the features that carry both the code and the name key; a
\* feature lacking either key, or its property bag, is skipped without
\* error; a code shared by several features maps to the name of the last.
C17_LastFeatureWins ==
    (call.op = "build_provinces_map") =>
        /\ ret.kind = "map"
        /\ DOMAIN ret.map = {CodeOf(j) : j \in FeaturesWithBoth}
        /\ \A k \in DOMAIN ret.map :
              ret.map[k] = geojson.features[LastWithCode(k)].props["name"]

(***************************************************************************)
(* Claims about geo enrichment                                             *)
(***************************************************************************)
EnrichCalled == call.op = "enrich_geojson_with_dataframe"

\* C4 as stated: no call of enrich_geojson_with_dataframe changes the
\* collection the caller passed, and what it returns is another object.
C4_NeverMutates ==
    EnrichCalled =>
        /\ geojson = call.before
        /\ ret.kind = "geo" => ~ret.same

\* C4, amended: a call with deepcopy_geo=True (the default) leaves the
\* caller's collection as it was, whether it returns or raises, and returns
\* an independent copy.
C4_DeepcopyKeepsInput ==
    (EnrichCalled /\ call.deepcopy_geo) =>
        /\ geojson = call.before
        /\ ret.kind = "geo" => ~ret.same

C4_Witness ==
    /\ EnrichCalled
    /\ call.deepcopy_geo
    /\ ret.kind = "geo"
    /\ ret.geo # call.before
    /\ geojson = call.before
    /\ \E j \in 1..Len(geojson.features) :
          /\ "total_medios" \in DOMAIN PropsOf(geojson.features[j])
          /\ geojson.features[j].props["total_medios"] = Int10(9)
          /\ ret.geo.features[j].props["total_medios"] = Int10(7)

\* the columns the call selects: the given ones that the table has, or all
\* of the table's, never the key column
SelectedColumns ==
    IF call.columns = NoColumns THEN SeqToSet(df.cols) \ {"provincia"}
    ELSE (SeqToSet(call.columns) \cap SeqToSet(df.cols)) \ {"provincia"}

RowsNamed(v) == {i \in 1..NRows(df) : df.rows[i]["provincia"] = v}

\* C9: in the returned collection every feature has every selected column
\* as a property: the value of a table row whose key is the feature's name,
\* NaN turned into null, or null when no row has that key; the key column is
\* not written, and features, order, geometry and other properties stay.
C9_EnrichedProperties ==
    (EnrichCalled /\ ret.kind = "geo") =>
        /\ Len(ret.geo.features) = Len(call.before.features)
        /\ \A j \in 1..Len(ret.geo.features) :
              LET pin  == PropsOf(call.before.features[j])
                  pout == ret.geo.features[j].props
                  hits == IF "name" \in DOMAIN pin THEN RowsNamed(pin["name"]) ELSE {}
              IN  /\ ret.geo.features[j].geometry = call.before.features[j].geometry
                  /\ DOMAIN pout = DOMAIN pin \cup SelectedColumns
                  /\ \A c \in DOMAIN pin \ SelectedColumns : pout[c] = pin[c]
                  /\ \A c \in SelectedColumns :
                        /\ pout[c].k # "nan"
                        /\ hits = {} => pout[c] = Null
                        /\ hits # {} =>
                              \E i \in hits :
                                  \/ pout[c] = df.rows[i][c]
                                  \/ df.rows[i][c] = NaN /\ pout[c] = Null

C9_Witness ==
    /\ EnrichCalled
    /\ ret.kind = "geo"
    /\ call.columns = <<"provincia", "total_medios", "numeromediosaereos">>
    /\ Len(ret.geo.features) = 2
    /\ call.before.features[1].props = [name |-> Str(<<"A">>), total_medios |-> Int10(9)]
    /\ call.before.features[2].props = [name |-> Str(<<"C">>)]
    /\ df.rows = <<[provincia |-> Str(<<"B">>), total_medios |-> Int10(7)],
                   [provincia |-> Str(<<"A">>), total_medios |-> NaN]>>
    /\ ret.geo.features[1].props = [name |-> Str(<<"A">>), total_medios |-> Null]
    /\ ret.geo.features[2].props = [name |-> Str(<<"C">>), total_medios |-> Null]

(***************************************************************************)
(* Claims about a run of the dashboard                                     *)
(***************************************************************************)
\* the run has a filtered table, or has gone on to aggregate and render it
PastTheGuards == call.op \in {"filtered", "aggregated", "enriched", "rendered"}

\* the years of the prepared table the run works on
DatasetYears ==
    IF HasCol(df, "anio")
    THEN {df.rows[i]["anio"].n \div 10 : i \in {j \in 1..NRows(df) : ~IsNa(df.rows[j]["anio"])}}
    ELSE {}

\* C21: the run filters, aggregates and renders only where the dataset has a
\* min_year and a max_year with min_year <= max_year, the slider's default
\* range is (min_year, min(min_year + 10, max_year)) and lies within
\* [min_year, max_year], and at least one intent flag is on; a run without a
\* valid year or with both flags off has stopped with a warning, no filtered
\* table or aggregate computed.
C21_GuardsBeforeFiltering ==
    /\ PastTheGuards =>
          /\ DatasetYears # {}
          /\ call.min_year = Int10(MinOf(DatasetYears))
          /\ call.max_year = Int10(MaxOf(DatasetYears))
          /\ call.min_year.n <= call.max_year.n
          /\ call.value[1] = MinOf(DatasetYears)
          /\ call.value[2] \in {MinOf(DatasetYears) + 10, MaxOf(DatasetYears)}
          /\ MinOf(DatasetYears) <= call.value[1]
          /\ call.value[1] <= call.value[2]
          /\ call.value[2] <= MaxOf(DatasetYears)
          /\ call.show_intentional \/ call.show_non_intentional
    /\ (call.op \notin {"idle", "raised", "loaded"} /\ DatasetYears = {}) =>
          /\ call.op = "stopped"
          /\ "show_intentional" \notin DOMAIN call
    /\ call.op = "stopped" =>
          /\ call.warning # ""
          /\ ret = NoRet
          /\ "df_filt" \notin DOMAIN call
          /\ \/ DatasetYears = {}
             \/ ~call.show_intentional /\ ~call.show_non_intentional

\* a run over the years 2009 to 2021 that reached the charts: the default
\* range ends at 2019
C21_Witness ==
    /\ call.op = "rendered"
    /\ DatasetYears = {2009, 2021}
    /\ call.value = <<2009, 2019>>
    /\ call.show_intentional
    /\ ~call.show_non_intentional

\* a run stopped by the year guard, and a run stopped by the intent guard
C21_WitnessNoYears ==
    /\ call.op = "stopped"
    /\ NRows(df) = 1
    /\ DatasetYears = {}

C21_WitnessBothOff ==
    /\ call.op = "stopped"
    /\ DatasetYears = {2020}
    /\ ~call.show_intentional
    /\ ~call.show_non_intentional

\* the province code of a feature of the collection
FeatureCode(feat) == python_int(feat.props["cod_prov"]).v

\* the features of the collection have unique codes and unique names, and
\* every province code of the table is the code of a feature
CodesJoin ==
    /\ \A i, j \in 1..Len(geojson.features) :
          i # j => /\ FeatureCode(geojson.features[i]) # FeatureCode(geojson.features[j])
                   /\ geojson.features[i].props["name"] # geojson.features[j].props["name"]
    /\ \A i \in 1..NRows(df) :
          \E j \in 1..Len(geojson.features) :
              df.rows[i]["idprovincia"] = Int10(FeatureCode(geojson.features[j]))

\* the filtered rows with the province code of a feature
FilteredRowsOf(feat) ==
    {i \in 1..NRows(call.df_filt) :
        call.df_filt.rows[i]["idprovincia"] = Int10(FeatureCode(feat))}

RECURSIVE SumOverRows(_, _, _)
SumOverRows(t, S, c) ==
    IF S = {} THEN 0
    ELSE LET i == CHOOSE x \in S : TRUE
         IN  t.rows[i][c].n + SumOverRows(t, S \ {i}, c)

\* the four properties of a feature are the sums over the rows S
CarriesSums(props, S) ==
    /\ \A c \in SeqToSet(RESOURCE_COLUMNS) : props[c] = Num(SumOverRows(call.df_filt, S, c))
    /\ props["total_medios"] =
          Num(SumOverRows(call.df_filt, S, "numeromediospersonal")
                + SumOverRows(call.df_filt, S, "numeromediospesados")
                + SumOverRows(call.df_filt, S, "numeromediosaereos"))

\* C22: for a collection with unique codes and names and a raw table whose
\* province codes are all in it, the run reaches the enriched collection, and
\* there a feature's total_medios is non-null exactly when some filtered row
\* has the feature's code; the four properties are then the sums over those
\* rows, and null for every other feature.
C22_JoinConsistent ==
    CodesJoin =>
        /\ call.op # "raised"
        /\ call.op = "enriched" =>
              /\ ret.kind = "geo"
              /\ \A j \in 1..Len(ret.geo.features) :
                    LET props == ret.geo.features[j].props
                        rows  == FilteredRowsOf(geojson.features[j])
                    IN  /\ (props["total_medios"] # Null) <=> (rows # {})
                        /\ rows # {} => CarriesSums(props, rows)
                        /\ rows = {} =>
                              \A c \in SeqToSet(MapColumns) : props[c] = Null

====
